---- MODULE Spec2Model ----
(***************************************************************************)
(* Ledger dashboard: account-tree normalisation and aggregation, the       *)
(* Top-N-plus-Others folding of the expense charts, the month-over-month   *)
(* diff rows and the expense extraction.                                   *)
(*                                                                         *)
(* A JavaScript string is a sequence of one-character strings, so that     *)
(* split, join, startsWith, includes and toLowerCase are computed and not  *)
(* assumed.  A JavaScript number holding an amount is an integer count of  *)
(* minor units, on which + and - are exact; the rounding of binary         *)
(* floating point on fractional amounts is outside this model.             *)
(***************************************************************************)
EXTENDS Integers, Sequences, FiniteSets, TLC

VARIABLES
    accounts,       \* AccountTree: the accounts prop
    nodeMap,        \* buildTreeFromPaths: the Map from path to node, in insertion order
    idx,            \* buildTreeFromPaths: position of the first forEach
    tree,           \* buildTreeFromPaths: the roots, children attached
    treeAccounts,   \* AccountTree: the memoised result
    again,          \* the result of normalising treeAccounts once more
    expenses,       \* ExpenseChart, ExpensePieChart: the expenses prop
    maxItems,       \* the maxItems prop of the three charts
    chart,          \* which chart rendered
    processed,      \* ExpenseChart, ExpensePieChart: processedExpenses
    withCumulative, \* ExpenseChart: expensesWithCumulative
    top80Total,     \* ExpenseChart: top80Total
    monthA,         \* ExpenseDiffChart: monthA.expenses
    monthB,         \* ExpenseDiffChart: monthB.expenses
    rows,           \* ExpenseDiffChart: rows
    totals,         \* ExpenseDiffChart: totalA, totalB, totalDiff, totalPct
    response,       \* App: the balance response (data), <<>> when null
    extracted,      \* App: the rows of extractExpensesFromBalance
    commodity,      \* formatDecimalByCommodity: the commodity argument
    value,          \* formatDecimalByCommodity: the Decimal argument
    shown,          \* formatDecimalByCommodity: the string returned
    parsedBack,     \* parseAmount of the string shown: <<v>>, <<>> before it ran
    data,           \* App: useState data, <<>> when null
    transactionData, \* App: useState transactionData, <<>> when null
    cashFlowData,   \* App: useState cashFlowData, <<>> when null
    budgetData,     \* App: useState budgetData, <<>> when null
    months,         \* App: monthAExpenses and monthBExpenses are set
    isLoading,      \* App: useState isLoading
    error,          \* App: useState error, "null" when null
    selectedAccount, \* App: useState selectedAccount
    currentCommand, \* App: useState currentCommand
    showExpenseChart, \* App: useState showExpenseChart
    showBudget,     \* App: useState showBudget
    showExpenseDiff, \* App: useState showExpenseDiff
    pending,        \* the requests awaited, not yet settled
    issued,         \* the number of requests issued
    settled,        \* the requests resolved, in the order they resolved
    expanded,       \* AccountNode: isExpanded of every mounted node
    subtotals,      \* CashFlowView: the subtotals prop
    cashTree,       \* CashFlowView: treeData, the result of buildCashFlowTree
    expandedPaths,  \* CashFlowView: useState expandedPaths
    expandAll,      \* CashFlowView: useState expandAll
    bigAccounts,    \* AccountTree: the accounts prop, amountsBigInt attached or not
    raised,         \* AccountTree: what rendering bigAccounts came to
    apiString,      \* an amount string of a response
    converted,      \* what converting apiString came to
    pc              \* position of the computation under way

treeVars == <<accounts, nodeMap, idx, tree, treeAccounts, again>>

foldVars == <<expenses, chart, processed, withCumulative, top80Total>>

diffVars == <<monthA, monthB, rows, totals>>

extractVars == <<response, extracted>>

formatVars == <<commodity, value, shown, parsedBack>>

sliceVars == <<data, transactionData, cashFlowData, budgetData>>

viewVars == <<months, selectedAccount, currentCommand, showExpenseChart, showBudget,
              showExpenseDiff>>

appVars == <<sliceVars, viewVars, isLoading, error, pending, issued, settled, expanded>>

cashVars == <<subtotals, cashTree, expandedPaths, expandAll>>

renderVars == <<bigAccounts, raised>>

parseVars == <<apiString, converted>>

restVars == <<cashVars, renderVars, parseVars>>

vars == <<treeVars, foldVars, diffVars, extractVars, formatVars, appVars, restVars, maxItems,
          pc>>

\* The variables of the computations that are not under way
TreeIdle ==
    /\ accounts = <<>> /\ nodeMap = <<>> /\ idx = 1 /\ tree = <<>>
    /\ treeAccounts = <<>> /\ again = <<>>

FoldIdle ==
    /\ expenses = <<>> /\ chart = "none" /\ processed = <<>>
    /\ withCumulative = <<>> /\ top80Total = 0

DiffIdle == monthA = <<>> /\ monthB = <<>> /\ rows = <<>> /\ totals = <<>>

ExtractIdle == response = <<>> /\ extracted = <<>>

FormatIdle == commodity = <<>> /\ value = <<>> /\ shown = <<>> /\ parsedBack = <<>>

AppIdle ==
    /\ data = <<>> /\ transactionData = <<>> /\ cashFlowData = <<>> /\ budgetData = <<>>
    /\ months = FALSE /\ isLoading = FALSE /\ error = "null" /\ selectedAccount = <<>>
    /\ currentCommand = "bal" /\ showExpenseChart = FALSE /\ showBudget = FALSE
    /\ showExpenseDiff = FALSE /\ pending = {} /\ issued = 0 /\ settled = <<>>
    /\ expanded = <<>>

CashIdle ==
    /\ subtotals = <<>> /\ cashTree = <<>> /\ expandedPaths = {} /\ expandAll = TRUE

RenderIdle == bigAccounts = <<>> /\ raised = "no"

ParseIdle == apiString = <<>> /\ converted = <<>>

RestIdle == CashIdle /\ RenderIdle /\ ParseIdle

----------------------------------------------------------------------------
(* Bounds *)

MaxAccounts == 2    \* length of the flat account list
MaxDepth == 2       \* number of segments of a path
MaxEmptyDepth == 3  \* number of segments of a path with an empty segment
MaxExpenses == 4    \* number of rows of an expense list
MaxCap == 2         \* largest maxItems
MaxMonthRows == 2   \* number of rows of a month's expense list
MaxNodes == 3       \* number of accounts of a balance response
MaxFracDigits == 3  \* number of fraction digits of a Decimal value
MaxRequests == 3    \* number of requests the App issues
MaxStringLen == 3   \* number of characters of an amount string
MaxSubtotals == 2   \* number of rows of the cash-flow subtotals

----------------------------------------------------------------------------
(* Strings *)

Range(s) == {s[i] : i \in 1..Len(s)}

\* Characters in collation order (localeCompare on the model's alphabet).
CharOrder == <<":", "A", "B", "C", "D", "L", "R", "S", "U">>

CharRank(c) == CHOOSE i \in 1..Len(CharOrder) : CharOrder[i] = c

AllButLast(s) == SubSeq(s, 1, Len(s) - 1)

\* String.prototype.split(':')
RECURSIVE Split(_)
Split(s) ==
    IF ":" \notin Range(s) THEN <<s>>
    ELSE LET i == CHOOSE k \in 1..Len(s) : s[k] = ":" /\ \A j \in 1..(k - 1) : s[j] # ":"
         IN  <<SubSeq(s, 1, i - 1)>> \o Split(SubSeq(s, i + 1, Len(s)))

\* Array.prototype.join(':')
RECURSIVE Join(_)
Join(parts) ==
    IF Len(parts) = 0 THEN <<>>
    ELSE IF Len(parts) = 1 THEN parts[1]
    ELSE Join(AllButLast(parts)) \o <<":">> \o parts[Len(parts)]

\* String.prototype.localeCompare, as -1, 0 or 1
RECURSIVE localeCompare(_, _)
localeCompare(a, b) ==
    IF Len(a) = 0 /\ Len(b) = 0 THEN 0
    ELSE IF Len(a) = 0 THEN -1
    ELSE IF Len(b) = 0 THEN 1
    ELSE IF CharRank(a[1]) < CharRank(b[1]) THEN -1
    ELSE IF CharRank(a[1]) > CharRank(b[1]) THEN 1
    ELSE localeCompare(Tail(a), Tail(b))

----------------------------------------------------------------------------
(* buildTreeFromPaths *)

\* account.fullPath || account.account
PathOf(account) == IF account.fullPath # <<>> THEN account.fullPath ELSE account.account

\* Map.prototype.has
MapHas(m, k) == \E i \in 1..Len(m) : m[i].key = k

\* Map.prototype.get (of a key the map has)
MapGet(m, k) == m[CHOOSE i \in 1..Len(m) : m[i].key = k].node

\* Map.prototype.set: a new key goes last, an old key keeps its place
MapSet(m, k, v) ==
    IF MapHas(m, k)
    THEN [i \in 1..Len(m) |-> IF m[i].key = k THEN [key |-> k, node |-> v] ELSE m[i]]
    ELSE Append(m, [key |-> k, node |-> v])

\* The placeholder parent of the first pass
Placeholder(part, currentPath) ==
    [account |-> part, fullPath |-> currentPath, amount |-> 0, clearedAmount |-> 0,
     lastClearedDate |-> <<>>, children |-> <<>>]

\* The loop over parts[0 .. length-2], from index i with currentPath cur
RECURSIVE AddParents(_, _, _, _)
AddParents(m, parts, i, cur) ==
    IF i > Len(parts) - 1 THEN m
    ELSE LET currentPath == IF cur # <<>> THEN cur \o <<":">> \o parts[i] ELSE parts[i]
             m2 == IF ~MapHas(m, currentPath)
                   THEN MapSet(m, currentPath, Placeholder(parts[i], currentPath))
                   ELSE m
         IN  AddParents(m2, parts, i + 1, currentPath)

\* The actual account set only where the map has no node for the path yet
SetIfAbsent(m, account) ==
    IF MapHas(m, PathOf(account)) THEN m
    ELSE MapSet(m, PathOf(account), [account EXCEPT !.children = <<>>])

\* nodeMap.set(path, {...account, children: []})
SetActualAccount(m, account) ==
    MapSet(m, PathOf(account), [account EXCEPT !.children = <<>>])

\* One iteration of the first forEach
AddAccount(m, account) ==
    SetActualAccount(AddParents(m, Split(PathOf(account)), 1, <<>>), account)

RECURSIVE CreateNodes(_, _)
CreateNodes(m, accs) ==
    IF Len(accs) = 0 THEN m ELSE CreateNodes(AddAccount(m, Head(accs)), Tail(accs))

\* parts.slice(0, -1).join(':')
ParentPath(path) == Join(AllButLast(Split(path)))

\* The keys whose node the second forEach pushes onto the node at path
ChildKeys(m, path) ==
    LET F[i \in 0..Len(m)] ==
            IF i = 0 THEN <<>>
            ELSE IF Len(Split(m[i].key)) # 1 /\ ParentPath(m[i].key) = path
                 THEN Append(F[i - 1], m[i].key)
                 ELSE F[i - 1]
    IN  F[Len(m)]

\* The keys the second forEach pushes onto tree
RootKeys(m) ==
    LET F[i \in 0..Len(m)] ==
            IF i = 0 THEN <<>>
            ELSE IF Len(Split(m[i].key)) = 1 THEN Append(F[i - 1], m[i].key) ELSE F[i - 1]
    IN  F[Len(m)]

\* The node at path with the children the second forEach attached, as a value
RECURSIVE Linked(_, _)
Linked(m, path) ==
    LET ks == ChildKeys(m, path)
    IN  [MapGet(m, path) EXCEPT !.children = [i \in 1..Len(ks) |-> Linked(m, ks[i])]]

LinkTree(m) ==
    LET ks == RootKeys(m)
    IN  [i \in 1..Len(ks) |-> Linked(m, ks[i])]

\* accounts.find(acc => (acc.fullPath || acc.account) === (node.fullPath || node.account))
IsOriginal(accs, node) == \E i \in 1..Len(accs) : PathOf(accs[i]) = PathOf(node)

\* reduce((sum, x) => sum + x, 0)
SumSeq(s) ==
    LET F[i \in 0..Len(s)] == IF i = 0 THEN 0 ELSE F[i - 1] + s[i]
    IN  F[Len(s)]

\* calculateParentAmounts without the assignment node.amount = childrenSum
RECURSIVE CalcNoAssign(_, _)
CalcNoAssign(accs, node) ==
    IF Len(node.children) = 0 THEN [node |-> node, ret |-> node.amount]
    ELSE LET rs == [i \in 1..Len(node.children) |-> CalcNoAssign(accs, node.children[i])]
             childrenSum == SumSeq([i \in 1..Len(rs) |-> rs[i].ret])
             kids == [i \in 1..Len(rs) |-> rs[i].node]
         IN  IF IsOriginal(accs, node)
             THEN [node |-> [node EXCEPT !.children = kids], ret |-> node.amount]
             ELSE [node |-> [node EXCEPT !.children = kids], ret |-> childrenSum]

\* calculateParentAmounts without the originalNode test
RECURSIVE CalcAlwaysSum(_, _)
CalcAlwaysSum(accs, node) ==
    IF Len(node.children) = 0 THEN [node |-> node, ret |-> node.amount]
    ELSE LET rs == [i \in 1..Len(node.children) |-> CalcAlwaysSum(accs, node.children[i])]
             childrenSum == SumSeq([i \in 1..Len(rs) |-> rs[i].ret])
             kids == [i \in 1..Len(rs) |-> rs[i].node]
         IN  [node |-> [node EXCEPT !.children = kids, !.amount = childrenSum],
              ret |-> childrenSum]

\* calculateParentAmounts with the originalNode test inverted
RECURSIVE CalcInverted(_, _)
CalcInverted(accs, node) ==
    IF Len(node.children) = 0 THEN [node |-> node, ret |-> node.amount]
    ELSE LET rs == [i \in 1..Len(node.children) |-> CalcInverted(accs, node.children[i])]
             childrenSum == SumSeq([i \in 1..Len(rs) |-> rs[i].ret])
             kids == [i \in 1..Len(rs) |-> rs[i].node]
         IN  IF ~IsOriginal(accs, node)
             THEN [node |-> [node EXCEPT !.children = kids], ret |-> node.amount]
             ELSE [node |-> [node EXCEPT !.children = kids, !.amount = childrenSum],
                   ret |-> childrenSum]

\* calculateParentAmounts: the node as the call leaves it, and the value returned
RECURSIVE calculateParentAmounts(_, _)
calculateParentAmounts(accs, node) ==
    IF Len(node.children) = 0 THEN [node |-> node, ret |-> node.amount]
    ELSE LET rs == [i \in 1..Len(node.children) |->
                        calculateParentAmounts(accs, node.children[i])]
             childrenSum == SumSeq([i \in 1..Len(rs) |-> rs[i].ret])
             kids == [i \in 1..Len(rs) |-> rs[i].node]
         IN  IF IsOriginal(accs, node)
             THEN [node |-> [node EXCEPT !.children = kids], ret |-> node.amount]
             ELSE [node |-> [node EXCEPT !.children = kids, !.amount = childrenSum],
                   ret |-> childrenSum]

\* calculateParentClearedAmounts: the same walk over clearedAmount
RECURSIVE calculateParentClearedAmounts(_, _)
calculateParentClearedAmounts(accs, node) ==
    IF Len(node.children) = 0 THEN [node |-> node, ret |-> node.clearedAmount]
    ELSE LET rs == [i \in 1..Len(node.children) |->
                        calculateParentClearedAmounts(accs, node.children[i])]
             childrenSum == SumSeq([i \in 1..Len(rs) |-> rs[i].ret])
             kids == [i \in 1..Len(rs) |-> rs[i].node]
         IN  IF IsOriginal(accs, node)
             THEN [node |-> [node EXCEPT !.children = kids], ret |-> node.clearedAmount]
             ELSE [node |-> [node EXCEPT !.children = kids, !.clearedAmount = childrenSum],
                   ret |-> childrenSum]

\* tree.forEach(calculateParentAmounts); tree.forEach(calculateParentClearedAmounts)
CalculateAll(accs, t) ==
    LET t1 == [i \in 1..Len(t) |-> calculateParentAmounts(accs, t[i]).node]
    IN  [i \in 1..Len(t1) |-> calculateParentClearedAmounts(accs, t1[i]).node]

\* Array.prototype.sort((a, b) => a.account.localeCompare(b.account)): stable
RECURSIVE SortByAccount(_)
SortByAccount(s) ==
    IF Len(s) <= 1 THEN s
    ELSE LET front == SortByAccount(AllButLast(s))
             x == s[Len(s)]
             k == Cardinality({i \in 1..Len(front) :
                                 localeCompare(front[i].account, x.account) <= 0})
         IN  SubSeq(front, 1, k) \o <<x>> \o SubSeq(front, k + 1, Len(front))

RECURSIVE sortChildren(_)
sortChildren(node) ==
    IF Len(node.children) > 0
    THEN LET sorted == SortByAccount(node.children)
         IN  [node EXCEPT !.children = [i \in 1..Len(sorted) |-> sortChildren(sorted[i])]]
    ELSE node

\* tree.forEach(sortChildren); tree.sort(...)
SortTree(t) == SortByAccount([i \in 1..Len(t) |-> sortChildren(t[i])])

buildTreeFromPaths(accs) ==
    SortTree(CalculateAll(accs, LinkTree(CreateNodes(<<>>, accs))))

\* accounts.some(acc => acc.children && acc.children.length > 0)
IsTreeNever(accs) == FALSE

IsTree(accs) == \E i \in 1..Len(accs) : Len(accs[i].children) > 0

\* The memoised treeAccounts of AccountTree
Normalize(accs) == IF IsTree(accs) THEN accs ELSE buildTreeFromPaths(accs)

----------------------------------------------------------------------------
(* Inputs of the account tree *)

Segments == {<<"A">>, <<"B">>}

Amounts == {-1, 2}

ClearedAmounts == {1}

Paths == {Join(p) : p \in UNION {[1..n -> Segments] : n \in 1..MaxDepth}}

\* An account of a balance response: its name is the last segment of its path
Account(path, amount, cleared, kids) ==
    [account |-> Split(path)[Len(Split(path))], fullPath |-> path, amount |-> amount,
     clearedAmount |-> cleared, lastClearedDate |-> <<"d">>, children |-> kids]

FlatAccounts ==
    {Account(p, a, c, <<>>) : p \in Paths, a \in Amounts, c \in ClearedAmounts}

FlatInputs == UNION {[1..n -> FlatAccounts] : n \in 0..MaxAccounts}

\* Roots of an already nested response: no child, or one child one level down
NestedKids(s, c) ==
    {<<>>} \cup {<<Account(Join(<<s, t>>), b, c, <<>>)>> : t \in Segments, b \in Amounts}

NestedRoots ==
    UNION {{Account(s, a, c, kids) : a \in Amounts, kids \in NestedKids(s, c)} :
              s \in Segments, c \in ClearedAmounts}

HasChildren(accs) == \E i \in 1..Len(accs) : accs[i].children # <<>>

NestedInputs ==
    {s \in UNION {[1..n -> NestedRoots] : n \in 1..MaxAccounts} : HasChildren(s)}

----------------------------------------------------------------------------
(* AccountTree: the normalisation, step by step *)

InitTree ==
    /\ accounts \in FlatInputs \cup NestedInputs
    /\ nodeMap = <<>>
    /\ idx = 1
    /\ tree = <<>>
    /\ treeAccounts = <<>>
    /\ again = <<>>
    /\ pc = "memo"
    /\ FoldIdle /\ DiffIdle /\ ExtractIdle /\ FormatIdle /\ AppIdle /\ RestIdle /\ maxItems = 0

\* if (isTree) return accounts
ReturnAccounts ==
    /\ pc = "memo"
    /\ IsTree(accounts)
    /\ treeAccounts' = accounts
    /\ pc' = "done"
    /\ UNCHANGED <<foldVars, diffVars, extractVars, formatVars, appVars, restVars, maxItems>>
    /\ UNCHANGED <<accounts, nodeMap, idx, tree, again>>

\* One iteration of accounts.forEach of buildTreeFromPaths
AddAccountStep ==
    /\ pc = "memo"
    /\ ~IsTree(accounts)
    /\ idx <= Len(accounts)
    /\ nodeMap' = AddAccount(nodeMap, accounts[idx])
    /\ idx' = idx + 1
    /\ UNCHANGED <<foldVars, diffVars, extractVars, formatVars, appVars, restVars, maxItems>>
    /\ UNCHANGED <<accounts, tree, treeAccounts, again, pc>>

\* nodeMap.forEach: roots pushed onto tree, the others onto their parent
LinkStep ==
    /\ pc = "memo"
    /\ ~IsTree(accounts)
    /\ idx > Len(accounts)
    /\ tree' = LinkTree(nodeMap)
    /\ pc' = "linked"
    /\ UNCHANGED <<foldVars, diffVars, extractVars, formatVars, appVars, restVars, maxItems>>
    /\ UNCHANGED <<accounts, nodeMap, idx, treeAccounts, again>>

\* The two tree.forEach of the aggregation
CalculateStep ==
    /\ pc = "linked"
    /\ tree' = CalculateAll(accounts, tree)
    /\ pc' = "summed"
    /\ UNCHANGED <<foldVars, diffVars, extractVars, formatVars, appVars, restVars, maxItems>>
    /\ UNCHANGED <<accounts, nodeMap, idx, treeAccounts, again>>

\* The sort, and the return into treeAccounts
SortStep ==
    /\ pc = "summed"
    /\ treeAccounts' = SortTree(tree)
    /\ pc' = "done"
    /\ UNCHANGED <<foldVars, diffVars, extractVars, formatVars, appVars, restVars, maxItems>>
    /\ UNCHANGED <<accounts, nodeMap, idx, tree, again>>

\* AccountTree rendered with its own treeAccounts as the accounts prop
Renormalize ==
    /\ pc = "done"
    /\ again' = Normalize(treeAccounts)
    /\ pc' = "again"
    /\ UNCHANGED <<foldVars, diffVars, extractVars, formatVars, appVars, restVars, maxItems>>
    /\ UNCHANGED <<accounts, nodeMap, idx, tree, treeAccounts>>

NextTree ==
    \/ ReturnAccounts
    \/ AddAccountStep
    \/ LinkStep
    \/ CalculateStep
    \/ SortStep
    \/ Renormalize

SpecTree == InitTree /\ [][NextTree]_vars

----------------------------------------------------------------------------
(* Properties of the account tree *)

RECURSIVE NodesOf(_)
NodesOf(node) == {node} \cup UNION {NodesOf(node.children[i]) : i \in 1..Len(node.children)}

AllNodes(forest) == UNION {NodesOf(forest[i]) : i \in 1..Len(forest)}

RECURSIVE LeafSum(_)
LeafSum(node) ==
    IF Len(node.children) = 0 THEN node.amount
    ELSE SumSeq([i \in 1..Len(node.children) |-> LeafSum(node.children[i])])

ChildAmounts(node) == [i \in 1..Len(node.children) |-> node.children[i].amount]

InputPaths == {PathOf(accounts[i]) : i \in 1..Len(accounts)}

\* The fields of a node other than its children
Fields(node) == [node EXCEPT !.children = <<>>]

\* buildTreeFromPaths has run on a flat list and returned
Built == pc \in {"done", "again"} /\ ~HasChildren(accounts)

C2_InputAmountKept ==
    Built =>
        \A n \in AllNodes(treeAccounts) :
            PathOf(n) \in InputPaths =>
                \E i \in 1..Len(accounts) :
                    PathOf(accounts[i]) = PathOf(n) /\ n.amount = accounts[i].amount

C2_Witness ==
    /\ Built
    /\ \E n \in AllNodes(treeAccounts) :
          /\ PathOf(n) \in InputPaths
          /\ Len(n.children) > 0
          /\ n.amount # SumSeq(ChildAmounts(n))

IsInputParent(n) == Len(n.children) > 0 /\ PathOf(n) \in InputPaths

C4_EntryWins ==
    Built =>
        \A n \in AllNodes(treeAccounts) :
            PathOf(n) \in InputPaths =>
                \E i \in 1..Len(accounts) :
                    PathOf(accounts[i]) = PathOf(n) /\ Fields(n) = Fields(accounts[i])

\* The entry of a parent comes after the entry of its child in the input
C4_Witness ==
    /\ Built
    /\ \E i, j \in 1..Len(accounts) :
          /\ i < j
          /\ Len(Split(PathOf(accounts[i]))) > 1
          /\ PathOf(accounts[j]) = ParentPath(PathOf(accounts[i]))
          /\ \E n \in AllNodes(treeAccounts) :
                /\ PathOf(n) = PathOf(accounts[j])
                /\ Len(n.children) > 0

\* C5: normalization is idempotent: normalizing its own output returns that
\* output, and an input that carries non-empty children is returned unchanged.
C5_Idempotent ==
    /\ pc = "again" => again = treeAccounts
    /\ (pc \in {"done", "again"} /\ HasChildren(accounts)) => treeAccounts = accounts

C5_Witness ==
    /\ pc = "again"
    /\ ~HasChildren(accounts)
    /\ HasChildren(treeAccounts)
    /\ again = treeAccounts

----------------------------------------------------------------------------
(* ExpenseChart and ExpensePieChart: Top-N plus Others *)

\* Array.prototype.slice(start, end) with JavaScript's relative indices
Slice(s, start, end) ==
    LET len == Len(s)
        k == IF start < 0 THEN (IF len + start < 0 THEN 0 ELSE len + start)
             ELSE (IF start > len THEN len ELSE start)
        f == IF end < 0 THEN (IF len + end < 0 THEN 0 ELSE len + end)
             ELSE (IF end > len THEN len ELSE end)
    IN  SubSeq(s, k + 1, f)

\* Array.prototype.slice(start)
SliceFrom(s, start) == Slice(s, start, Len(s))

Digits == <<"0", "1", "2", "3", "4", "5", "6", "7", "8", "9">>

\* A non-negative integer in a template literal
RECURSIVE NumStr(_)
NumStr(n) ==
    IF n < 10 THEN <<Digits[n + 1]>> ELSE NumStr(n \div 10) \o <<Digits[(n % 10) + 1]>>

\* `Others (${n} accounts)`
OthersLabel(n) ==
    <<"O", "t", "h", "e", "r", "s", " ", "(">> \o NumStr(n)
        \o <<" ", "a", "c", "c", "o", "u", "n", "t", "s", ")">>

\* reduce((sum, e) => sum.plus(e.amount), new Decimal(0))
SumAmounts(s) == SumSeq([i \in 1..Len(s) |-> s[i].amount])

\* The folding with rest = expenses.slice(maxItems): the row at maxItems is lost
FoldFromCap(exps, cap) ==
    IF Len(exps) <= cap THEN exps
    ELSE LET top == Slice(exps, 0, cap - 1)
             rest == SliceFrom(exps, cap)
         IN  top \o <<[account |-> OthersLabel(Len(rest)), amount |-> SumAmounts(rest),
                       isOthers |-> TRUE]>>

\* processedExpenses of ExpenseChart
processedExpenses(exps, cap) ==
    IF Len(exps) <= cap THEN exps
    ELSE LET top == Slice(exps, 0, cap - 1)
             rest == SliceFrom(exps, cap - 1)
         IN  top \o <<[account |-> OthersLabel(Len(rest)), amount |-> SumAmounts(rest),
                       isOthers |-> TRUE]>>

\* The folding of the pie chart with rest = expenses.slice(maxItems)
PieFoldFromCap(exps, cap) ==
    IF Len(exps) <= cap THEN exps
    ELSE LET top == Slice(exps, 0, cap - 1)
             rest == SliceFrom(exps, cap)
         IN  top \o <<[account |-> OthersLabel(Len(rest)), amount |-> SumAmounts(rest),
                       isOthers |-> TRUE]>>

\* cumulative.lte(eightyThreshold), eightyThreshold = totalAmount.mul(0.8)
WithinEighty(cumulative, totalAmount) == 5 * cumulative <= 4 * totalAmount

\* expensesWithCumulative: isInTop80 of every processed row, from the running
\* sum of all the rows up to it
expensesWithCumulative(procs, totalAmount) ==
    [i \in 1..Len(procs) |->
        [account |-> procs[i].account, amount |-> procs[i].amount,
         isInTop80 |-> WithinEighty(SumAmounts(SubSeq(procs, 1, i)), totalAmount)]]

\* top80Total: the reduce that adds a row's amount when the sum stays within
\* the threshold and passes over the row otherwise
RECURSIVE Top80Reduce(_, _, _)
Top80Reduce(acc, procs, totalAmount) ==
    IF procs = <<>> THEN acc
    ELSE LET next == acc + procs[1].amount
         IN  Top80Reduce(IF WithinEighty(next, totalAmount) THEN next ELSE acc,
                         Tail(procs), totalAmount)

\* processedExpenses of ExpensePieChart
processedExpensesPie(exps, cap) ==
    IF Len(exps) <= cap THEN exps
    ELSE LET top == Slice(exps, 0, cap - 1)
             rest == SliceFrom(exps, cap - 1)
         IN  top \o <<[account |-> OthersLabel(Len(rest)), amount |-> SumAmounts(rest),
                       isOthers |-> TRUE]>>

ExpenseNames == <<<<"A">>, <<"B">>, <<"C">>, <<"A", "A">>, <<"A", "B">>, <<"A", "C">>>>

ExpenseAmounts == {0, 1, 3, 9}

\* An expense list: the i-th row is the i-th account, with any amount
ExpenseLists ==
    UNION {{[i \in 1..n |-> [account |-> ExpenseNames[i], amount |-> f[i]]] :
               f \in [1..n -> ExpenseAmounts]} : n \in 0..MaxExpenses}

InitFold ==
    /\ expenses \in ExpenseLists
    /\ maxItems \in 0..MaxCap
    /\ chart = "none"
    /\ processed = <<>>
    /\ withCumulative = <<>>
    /\ top80Total = 0
    /\ pc = "props"
    /\ TreeIdle /\ DiffIdle /\ ExtractIdle /\ FormatIdle /\ AppIdle /\ RestIdle

RenderExpenseChart ==
    /\ pc = "props"
    /\ processed' = processedExpenses(expenses, maxItems)
    /\ withCumulative' = expensesWithCumulative(processed', SumAmounts(expenses))
    /\ top80Total' = Top80Reduce(0, processed', SumAmounts(expenses))
    /\ chart' = "bar"
    /\ pc' = "rendered"
    /\ UNCHANGED <<treeVars, diffVars, extractVars, formatVars, appVars, restVars, expenses, maxItems>>

RenderExpensePieChart ==
    /\ pc = "props"
    /\ processed' = processedExpensesPie(expenses, maxItems)
    /\ chart' = "pie"
    /\ pc' = "rendered"
    /\ UNCHANGED <<treeVars, diffVars, extractVars, formatVars, appVars, restVars, expenses, maxItems,
                   withCumulative, top80Total>>

NextFold == RenderExpenseChart \/ RenderExpensePieChart

SpecFold == InitFold /\ [][NextFold]_vars

\* The rows of processed before its last row
KeptRows == Len(processed) - 1

\* The rows of expenses that are not among the kept rows
FoldedRows == SubSeq(expenses, KeptRows + 1, Len(expenses))

\* C6: whenever the expense list has more rows than the cap N, the amount of
\* the Others row is the sum of the original amounts of the rows folded into
\* it, the rows after the first N-1 (for N >= 1), and its label states how
\* many rows were folded.
C6_OthersIsSumOfFolded ==
    (pc = "rendered" /\ Len(expenses) > maxItems) =>
        LET others == processed[Len(processed)]
        IN  /\ Len(processed) >= 1
            /\ "isOthers" \in DOMAIN others
            /\ others.isOthers
            /\ SubSeq(processed, 1, KeptRows) = SubSeq(expenses, 1, KeptRows)
            /\ maxItems >= 1 => KeptRows = maxItems - 1
            /\ others.amount = SumAmounts(FoldedRows)
            /\ others.account = OthersLabel(Len(FoldedRows))

C6_Witness ==
    /\ pc = "rendered"
    /\ maxItems = 2
    /\ Len(expenses) = 4
    /\ Len(processed) = 2
    /\ processed[2].account = OthersLabel(3)
    /\ processed[2].amount = 6
    /\ expenses[2].amount = 3

\* C7 as stated: for every expense list and every cap N >= 0 passed as
\* maxItems, 0 and 1 included, the rows produced are at most N.
C7_AtMostCapRows == pc = "rendered" => Len(processed) <= maxItems

----------------------------------------------------------------------------
(* ExpenseDiffChart *)

Abs(x) == IF x < 0 THEN -x ELSE x

\* m.set(e.account, (m.get(e.account) || 0) + e.amount) over the month's rows
RECURSIVE AccountMap(_, _)
AccountMap(m, exps) ==
    IF Len(exps) = 0 THEN m
    ELSE LET e == Head(exps)
             old == IF MapHas(m, e.account) THEN MapGet(m, e.account) ELSE 0
         IN  AccountMap(MapSet(m, e.account, old + e.amount), Tail(exps))

MapKeys(m) == [i \in 1..Len(m) |-> m[i].key]

\* Array.from(new Set(keys)): the first occurrence of each key, in order
Dedup(keys) ==
    LET F[i \in 0..Len(keys)] ==
            IF i = 0 THEN <<>>
            ELSE IF keys[i] \in Range(F[i - 1]) THEN F[i - 1] ELSE Append(F[i - 1], keys[i])
    IN  F[Len(keys)]

allAccounts(aMap, bMap) == Dedup(MapKeys(aMap) \o MapKeys(bMap))

\* aMap.get(acc) ?? 0
GetOrZero(m, acc) == IF MapHas(m, acc) THEN MapGet(m, acc) ELSE 0

\* diff / a when a is not 0, as the fraction it is; otherwise undefined
PctChange(diff, a) == IF a # 0 THEN [num |-> diff, den |-> a] ELSE "undefined"

\* The row of one account
AccountRow(aMap, bMap, acc) ==
    LET a == GetOrZero(aMap, acc)
        b == GetOrZero(bMap, acc)
        diff == b - a
    IN  [account |-> acc, a |-> a, b |-> b, diff |-> diff, absDiff |-> Abs(diff),
         pctChange |-> PctChange(diff, a)]

PerAccountRows(aMap, bMap) ==
    LET accs == allAccounts(aMap, bMap)
    IN  [i \in 1..Len(accs) |-> AccountRow(aMap, bMap, accs[i])]

\* r.sort((x, y) => y.absDiff - x.absDiff): stable, biggest first
RECURSIVE SortByAbsDiff(_)
SortByAbsDiff(r) ==
    IF Len(r) <= 1 THEN r
    ELSE LET front == SortByAbsDiff(AllButLast(r))
             x == r[Len(r)]
             k == Cardinality({i \in 1..Len(front) : front[i].absDiff >= x.absDiff})
         IN  SubSeq(front, 1, k) \o <<x>> \o SubSeq(front, k + 1, Len(front))

\* The reduce with acc.absDiff += cur.absDiff in place of Math.abs(acc.diff)
RECURSIVE OthersSumAbs(_, _)
OthersSumAbs(acc, rest) ==
    IF Len(rest) = 0 THEN acc
    ELSE LET cur == Head(rest)
         IN  OthersSumAbs([acc EXCEPT !.a = acc.a + cur.a, !.b = acc.b + cur.b,
                                      !.diff = acc.diff + cur.diff,
                                      !.absDiff = acc.absDiff + cur.absDiff],
                          Tail(rest))

\* The reduce without acc.diff += cur.diff
RECURSIVE OthersNoDiff(_, _)
OthersNoDiff(acc, rest) ==
    IF Len(rest) = 0 THEN acc
    ELSE LET cur == Head(rest)
         IN  OthersNoDiff([acc EXCEPT !.a = acc.a + cur.a, !.b = acc.b + cur.b,
                                      !.absDiff = Abs(acc.diff)],
                          Tail(rest))

\* rest.reduce((acc, cur) => ..., {account, a: 0, b: 0, diff: 0, absDiff: 0, isOthers})
RECURSIVE OthersReduce(_, _)
OthersReduce(acc, rest) ==
    IF Len(rest) = 0 THEN acc
    ELSE LET cur == Head(rest)
             d == acc.diff + cur.diff
         IN  OthersReduce([acc EXCEPT !.a = acc.a + cur.a, !.b = acc.b + cur.b,
                                      !.diff = d, !.absDiff = Abs(d)],
                          Tail(rest))

\* The Others row of the diff chart
OthersRow(rest) ==
    LET init == [account |-> OthersLabel(Len(rest)), a |-> 0, b |-> 0, diff |-> 0,
                 absDiff |-> 0, isOthers |-> TRUE, pctChange |-> "undefined"]
        others == OthersReduce(init, rest)
    IN  [others EXCEPT !.pctChange = PctChange(others.diff, others.a)]

\* The rows memo of ExpenseDiffChart
DiffRows(aMap, bMap, cap) ==
    LET r == SortByAbsDiff(PerAccountRows(aMap, bMap))
    IN  IF Len(r) <= cap THEN r
        ELSE LET top == Slice(r, 0, cap - 1)
                 rest == SliceFrom(r, cap - 1)
             IN  top \o <<OthersRow(rest)>>

\* totalA, totalB, totalDiff and totalPct
Totals(r) ==
    LET totalA == SumSeq([i \in 1..Len(r) |-> r[i].a])
        totalB == SumSeq([i \in 1..Len(r) |-> r[i].b])
        totalDiff == totalB - totalA
    IN  [totalA |-> totalA, totalB |-> totalB, totalDiff |-> totalDiff,
         totalPct |-> PctChange(totalDiff, totalA)]

DiffNames == {<<"A">>, <<"B">>, <<"C">>}

DiffAmounts == {1, 3}

MonthRows == {[account |-> n, amount |-> a] : n \in DiffNames, a \in DiffAmounts}

MonthLists == UNION {[1..n -> MonthRows] : n \in 0..MaxMonthRows}

InitDiff ==
    /\ monthA \in MonthLists
    /\ monthB \in MonthLists
    /\ maxItems \in 0..MaxCap
    /\ rows = <<>>
    /\ totals = <<>>
    /\ pc = "months"
    /\ TreeIdle /\ FoldIdle /\ ExtractIdle /\ FormatIdle /\ AppIdle /\ RestIdle

RenderExpenseDiffChart ==
    /\ pc = "months"
    /\ LET aMap == AccountMap(<<>>, monthA)
           bMap == AccountMap(<<>>, monthB)
       IN  /\ rows' = DiffRows(aMap, bMap, maxItems)
           /\ totals' = Totals(rows')
    /\ pc' = "diffed"
    /\ UNCHANGED <<treeVars, foldVars, extractVars, formatVars, appVars, restVars, monthA, monthB, maxItems>>

NextDiff == RenderExpenseDiffChart

SpecDiff == InitDiff /\ [][NextDiff]_vars

NamesOf(exps) == {exps[i].account : i \in 1..Len(exps)}

\* The rows before the folding
UnfoldedRows == SortByAbsDiff(PerAccountRows(AccountMap(<<>>, monthA), AccountMap(<<>>, monthB)))

\* The rows folded into the Others row: those after the rows kept
FoldedDiffRows == SubSeq(UnfoldedRows, Len(rows), Len(UnfoldedRows))

----------------------------------------------------------------------------
(* App: extraction of the expense rows from a balance response *)

UpperCase == <<"A", "B", "C", "D", "E", "F", "G", "H", "I", "J", "K", "L", "M",
               "N", "O", "P", "Q", "R", "S", "T", "U", "V", "W", "X", "Y", "Z">>

LowerCase == <<"a", "b", "c", "d", "e", "f", "g", "h", "i", "j", "k", "l", "m",
               "n", "o", "p", "q", "r", "s", "t", "u", "v", "w", "x", "y", "z">>

\* String.prototype.toLowerCase
toLowerCase(s) ==
    [i \in 1..Len(s) |->
        IF \E k \in 1..Len(UpperCase) : UpperCase[k] = s[i]
        THEN LowerCase[CHOOSE k \in 1..Len(UpperCase) : UpperCase[k] = s[i]]
        ELSE s[i]]

\* String.prototype.startsWith
startsWith(s, prefix) == Len(s) >= Len(prefix) /\ SubSeq(s, 1, Len(prefix)) = prefix

\* String.prototype.includes
includes(s, sub) ==
    \E i \in 1..(Len(s) - Len(sub) + 1) : SubSeq(s, i, i + Len(sub) - 1) = sub

\* replace(/\./g, '')
RemoveDots(s) ==
    LET F[i \in 0..Len(s)] ==
            IF i = 0 THEN <<>> ELSE IF s[i] = "." THEN F[i - 1] ELSE Append(F[i - 1], s[i])
    IN  F[Len(s)]

\* replace(',', '.'): the first comma only
ReplaceFirstComma(s) ==
    [i \in 1..Len(s) |->
        IF s[i] = "," /\ \A j \in 1..(i - 1) : s[j] # "," THEN "." ELSE s[i]]

IsDigit(c) == \E k \in 1..Len(Digits) : Digits[k] = c

DigitValue(c) == (CHOOSE k \in 1..Len(Digits) : Digits[k] = c) - 1

\* The length of the longest prefix of s made of digits
DigitPrefix(s) ==
    IF \E i \in 1..Len(s) : ~IsDigit(s[i])
    THEN (CHOOSE i \in 1..Len(s) : ~IsDigit(s[i]) /\ \A j \in 1..(i - 1) : IsDigit(s[j])) - 1
    ELSE Len(s)

\* The number written by a sequence of digits
DigitsValue(ds) ==
    LET F[i \in 0..Len(ds)] == IF i = 0 THEN 0 ELSE 10 * F[i - 1] + DigitValue(ds[i])
    IN  F[Len(ds)]

\* The unsigned decimal literal at the head of s, in hundredths: <<v>>, or <<>> for NaN
UnsignedLiteral(s) ==
    LET n == DigitPrefix(s)
        afterInt == SubSeq(s, n + 1, Len(s))
        hasPoint == Len(afterInt) > 0 /\ afterInt[1] = "."
        fracAll == IF hasPoint THEN SubSeq(afterInt, 2, Len(afterInt)) ELSE <<>>
        m == DigitPrefix(fracAll)
        frac == SubSeq(fracAll, 1, m)
        padded == SubSeq(frac \o <<"0", "0">>, 1, 2)
    IN  IF n = 0 /\ m = 0 THEN <<>>
        ELSE <<100 * DigitsValue(SubSeq(s, 1, n)) + DigitsValue(padded)>>

\* parseFloat on strings of at most two fraction digits: <<v>> with v in
\* hundredths, or <<>> for NaN
parseFloat(s) ==
    LET blanks == IF \E i \in 1..Len(s) : s[i] # " "
                  THEN (CHOOSE i \in 1..Len(s) : s[i] # " " /\ \A j \in 1..(i - 1) : s[j] = " ") - 1
                  ELSE Len(s)
        t == SubSeq(s, blanks + 1, Len(s))
        signed == Len(t) > 0 /\ t[1] \in {"-", "+"}
        lit == UnsignedLiteral(IF signed THEN Tail(t) ELSE t)
    IN  IF lit = <<>> THEN <<>>
        ELSE IF signed /\ t[1] = "-" THEN <<-lit[1]>> ELSE lit

sBRL == <<"B", "R", "L">>

\* amounts[key], the empty string standing for undefined
Lookup(amounts, key) == IF key \in DOMAIN amounts THEN amounts[key] ELSE <<>>

\* parseAmount of App
parseAmount(amounts, currency) ==
    LET first == Lookup(amounts, currency)
        second == Lookup(amounts, toLowerCase(currency))
        amountStr == IF first # <<>> THEN first ELSE IF second # <<>> THEN second ELSE <<"0">>
        cleanValue == ReplaceFirstComma(RemoveDots(amountStr))
        parsed == parseFloat(cleanValue)
    IN  IF parsed = <<>> THEN 0 ELSE parsed[1]

sDespesasColon == <<"D", "e", "s", "p", "e", "s", "a", "s", ":">>

sExpensesColon == <<"E", "x", "p", "e", "n", "s", "e", "s", ":">>

sExpenseLower == <<"e", "x", "p", "e", "n", "s", "e">>

sUnknown == <<"U", "n", "k", "n", "o", "w", "n">>

isExpenseAccount(account) ==
    /\ account.fullPath # <<>>
    /\ \/ startsWith(account.fullPath, sDespesasColon)
       \/ startsWith(account.fullPath, sExpensesColon)
       \/ includes(toLowerCase(account.fullPath), sExpenseLower)

\* account.account || account.fullPath?.split(':').pop() || 'Unknown'
RowName(account) ==
    LET parts == Split(account.fullPath)
        last == parts[Len(parts)]
    IN  IF account.account # <<>> THEN account.account
        ELSE IF last # <<>> THEN last
        ELSE sUnknown

\* The row pushed for one account, if any
OwnRows(account, currency) ==
    LET amount == Abs(parseAmount(account.amounts, currency))
    IN  IF isExpenseAccount(account) /\ amount > 0
        THEN <<[account |-> RowName(account), amount |-> amount]>>
        ELSE <<>>

\* extractExpensesRecursive without the descent into children
RECURSIVE ExtractTopLevel(_, _)
ExtractTopLevel(accs, currency) ==
    IF Len(accs) = 0 THEN <<>>
    ELSE OwnRows(Head(accs), currency) \o ExtractTopLevel(Tail(accs), currency)

RECURSIVE extractExpensesRecursive(_, _)
extractExpensesRecursive(accs, currency) ==
    IF Len(accs) = 0 THEN <<>>
    ELSE LET account == Head(accs)
             below == IF Len(account.children) > 0
                      THEN extractExpensesRecursive(account.children, currency)
                      ELSE <<>>
         IN  OwnRows(account, currency) \o below
                 \o extractExpensesRecursive(Tail(accs), currency)

\* sort((a, b) => b.amount - a.amount): stable, biggest first
RECURSIVE SortByAmountDesc(_)
SortByAmountDesc(r) ==
    IF Len(r) <= 1 THEN r
    ELSE LET front == SortByAmountDesc(AllButLast(r))
             x == r[Len(r)]
             k == Cardinality({i \in 1..Len(front) : front[i].amount >= x.amount})
         IN  SubSeq(front, 1, k) \o <<x>> \o SubSeq(front, k + 1, Len(front))

\* extractExpensesFromBalance; resp is <<>> for null
extractExpensesFromBalance(resp) ==
    IF resp = <<>> THEN <<>>
    ELSE LET accountsWithBalance == resp[1].account.children
             currency == IF resp[1].currency # <<>> THEN resp[1].currency ELSE sBRL
         IN  SortByAmountDesc(extractExpensesRecursive(accountsWithBalance, currency))

sDespesas == <<"D", "e", "s", "p", "e", "s", "a", "s">>

sExpenses == <<"E", "x", "p", "e", "n", "s", "e", "s">>

sAtivos == <<"A", "t", "i", "v", "o", "s">>

sCasa == <<"C", "a", "s", "a">>

sLuz == <<"L", "u", "z">>

sFood == <<"F", "o", "o", "d">>

sMyExpense == <<"M", "y", "E", "x", "p", "e", "n", "s", "e">>

\* The accounts a response may hold, as paths of segments, parents first
Universe ==
    <<<<sDespesas>>, <<sDespesas, sCasa>>, <<sDespesas, sCasa, sLuz>>,
      <<sExpenses>>, <<sExpenses, sFood>>,
      <<sAtivos>>, <<sAtivos, sMyExpense>>>>

\* The amount strings of the response: 5, -7, 0 and 2,5
AmountStrs == {<<"5">>, <<"-", "7">>, <<"0">>, <<"2", ",", "5">>}

\* The sets of accounts of at most MaxNodes accounts that hold every parent
AccountSets ==
    {S \in SUBSET (1..Len(Universe)) :
        /\ Cardinality(S) <= MaxNodes
        /\ \A i \in S : Len(Universe[i]) > 1 =>
              \E j \in S : Universe[j] = AllButLast(Universe[i])}

\* The children of the account at segs, in the order of Universe
RECURSIVE ResponseKids(_, _, _)
ResponseKids(S, f, segs) ==
    LET F[i \in 0..Len(Universe)] ==
            IF i = 0 THEN <<>>
            ELSE IF i \in S /\ AllButLast(Universe[i]) = segs
                 THEN Append(F[i - 1],
                             [account |-> Universe[i][Len(Universe[i])],
                              fullPath |-> Join(Universe[i]),
                              amounts |-> (sBRL :> f[i]),
                              children |-> ResponseKids(S, f, Universe[i])])
                 ELSE F[i - 1]
    IN  F[Len(Universe)]

\* A LedgerBalanceResponse: the root account, and the currency
Response(S, f, currency) ==
    [account |-> [account |-> <<>>, fullPath |-> <<>>, amounts |-> (sBRL :> <<"0">>),
                  children |-> ResponseKids(S, f, <<>>)],
     currency |-> currency]

Responses ==
    UNION {{Response(S, f, c) : f \in [S -> AmountStrs], c \in {sBRL, <<>>}} :
              S \in AccountSets}

InitExtract ==
    /\ response \in {<<>>} \cup {<<r>> : r \in Responses}
    /\ extracted = <<>>
    /\ pc = "data"
    /\ maxItems = 0
    /\ TreeIdle /\ FoldIdle /\ DiffIdle /\ FormatIdle /\ AppIdle /\ RestIdle

\* getAllExpenses
GetAllExpenses ==
    /\ pc = "data"
    /\ extracted' = extractExpensesFromBalance(response)
    /\ pc' = "extracted"
    /\ UNCHANGED <<treeVars, foldVars, diffVars, formatVars, appVars, restVars, response, maxItems>>

NextExtract == GetAllExpenses

SpecExtract == InitExtract /\ [][NextExtract]_vars

\* The accounts of the response below its root, at any depth
ResponseNodes ==
    IF response = <<>> THEN {} ELSE AllNodes(response[1].account.children)

ResponseCurrency ==
    IF response # <<>> /\ response[1].currency # <<>> THEN response[1].currency ELSE sBRL

NodeAmount(n) == parseAmount(n.amounts, ResponseCurrency)

NodeRow(n) == [account |-> RowName(n), amount |-> Abs(NodeAmount(n))]

SortedDesc(r) == \A i, j \in 1..Len(r) : i < j => r[i].amount >= r[j].amount

\* r holds one row for every account of the set, and no other row
OneRowEach(r, nodes) ==
    /\ Len(r) = Cardinality(nodes)
    /\ \A v \in Range(r) \cup {NodeRow(n) : n \in nodes} :
          Cardinality({i \in 1..Len(r) : r[i] = v})
              = Cardinality({n \in nodes : NodeRow(n) = v})

\* The predicate as the claim words it
MatchesAsStated(n) ==
    \/ startsWith(n.fullPath, sDespesas)
    \/ startsWith(n.fullPath, sExpenses)
    \/ includes(toLowerCase(n.fullPath), sExpenseLower)

----------------------------------------------------------------------------
(* FormatDecimal: formatDecimalByCommodity *)

sUSD == <<"U", "S", "D">>

sUSDT == <<"U", "S", "D", "T">>

sCET == <<"C", "E", "T">>

sLoop == <<"L", "o", "o", "p">>

\* A commodity with no entry in RULES
sXYZ == <<"X", "Y", "Z">>

sPtBR == <<"p", "t", "-", "B", "R">>

sEnUS == <<"e", "n", "-", "U", "S">>

\* A rule; an absent field is <<>>, and maxFraction <<>> is Infinity or absent
Rule(locale, currency, symbol, minFraction, maxFraction) ==
    [locale |-> locale, currency |-> currency, symbol |-> symbol,
     minFraction |-> minFraction, maxFraction |-> maxFraction]

\* RULES, for the commodities of the model; <<>> for a commodity without entry
RULES(c) ==
    IF c = sBRL THEN <<Rule(sPtBR, sBRL, <<>>, <<2>>, <<>>)>>
    ELSE IF c = sUSD THEN <<Rule(sPtBR, sUSD, <<>>, <<2>>, <<>>)>>
    ELSE IF c = sUSDT THEN <<Rule(sPtBR, <<>>, sUSDT, <<2>>, <<>>)>>
    ELSE IF c = sCET THEN <<Rule(sPtBR, <<>>, sCET, <<2>>, <<2>>)>>
    ELSE IF c = sLoop THEN <<Rule(sPtBR, <<>>, sLoop, <<0>>, <<0>>)>>
    ELSE <<>>

\* rules[commodity] ?? {}
RuleOf(c) ==
    IF RULES(c) # <<>> THEN RULES(c)[1] ELSE Rule(<<>>, <<>>, <<>>, <<>>, <<>>)

\* What Intl.NumberFormat shows for the locale and currency: pt-BR writes
\* 123.456.789,5 and puts the currency symbol and a space in front; en-US
\* writes 123,456,789.5
detectLocalePattern(locale, currency) ==
    LET pt == locale = sPtBR
        symbol == IF currency = sBRL THEN <<"R", "$", " ">>
                  ELSE IF currency = sUSD THEN <<"U", "S", "$", " ">>
                  ELSE <<>>
    IN  [decimalSep |-> IF pt THEN "," ELSE ".",
         groupSep |-> IF pt THEN "." ELSE ",",
         prefix |-> symbol,
         suffix |-> <<>>,
         minusSign |-> "-",
         primaryGroup |-> 3,
         secondaryGroup |-> 3]

Min(a, b) == IF a <= b THEN a ELSE b

\* The while loop of groupInteger: the groups before position i, then out
RECURSIVE GroupLoop(_, _, _, _)
GroupLoop(intStr, i, sec, out) ==
    IF i <= 0 THEN out
    ELSE LET size == Min(sec, i)
         IN  GroupLoop(intStr, i - size, sec, <<SubSeq(intStr, i - size + 1, i)>> \o out)

\* out.join(sep)
JoinWith(parts, sep) ==
    LET F[i \in 0..Len(parts)] ==
            IF i = 0 THEN <<>>
            ELSE IF i = 1 THEN parts[1]
            ELSE F[i - 1] \o <<sep>> \o parts[i]
    IN  F[Len(parts)]

groupInteger(intStr, primary, secondary, sep) ==
    IF primary = 0 \/ Len(intStr) <= primary THEN intStr
    ELSE LET i == Len(intStr)
             first == SubSeq(intStr, i - primary + 1, i)
             sec == IF secondary # 0 THEN secondary ELSE primary
         IN  JoinWith(GroupLoop(intStr, i - primary, sec, <<first>>), sep)

\* A Decimal: sign, integer part, and the fraction's digits without trailing
\* zeros
Decimal(negative, int, frac) == [negative |-> negative, int |-> int, frac |-> frac]

\* Decimal.prototype.decimalPlaces
decimalPlaces(d) == Len(d.frac)

\* The first dp digits of the fraction, zeros after its last digit
FracDigits(d, dp) == [i \in 1..dp |-> IF i <= Len(d.frac) THEN d.frac[i] ELSE "0"]

\* toFixed(dp, Decimal.ROUND_HALF_UP): one more in the last place kept when
\* the first digit dropped is 5 or more
toFixedHalfUp(d, dp) ==
    LET kept == FracDigits(d, dp)
        up == Len(d.frac) > dp /\ DigitValue(d.frac[dp + 1]) >= 5
        scale == DigitsValue(<<"1">> \o [i \in 1..dp |-> "0"])
        units == d.int * scale + DigitsValue(kept) + (IF up THEN 1 ELSE 0)
        fracStr == NumStr(units % scale)
        zeros == [i \in 1..(dp - Len(fracStr)) |-> "0"]
    IN  IF dp = 0 THEN NumStr(units)
        ELSE NumStr(units \div scale) \o <<".">> \o zeros \o fracStr

\* Decimal.prototype.toFixed(dp, Decimal.ROUND_DOWN) of a non-negative Decimal
toFixedDown(d, dp) ==
    IF dp = 0 THEN NumStr(d.int) ELSE NumStr(d.int) \o <<".">> \o FracDigits(d, dp)

\* raw.indexOf("."), from 1; 0 when there is none
IndexOf(s, c) ==
    IF \E i \in 1..Len(s) : s[i] = c
    THEN CHOOSE i \in 1..Len(s) : s[i] = c /\ \A j \in 1..(i - 1) : s[j] # c
    ELSE 0

\* The while loop trimming trailing zeros: the last index kept, from 0
RECURSIVE TrimIndex(_, _, _)
TrimIndex(fracRaw, i, minF) ==
    IF i >= minF /\ i >= 0 /\ fracRaw[i + 1] = "0" THEN TrimIndex(fracRaw, i - 1, minF) ELSE i

\* "0".repeat(n)
Zeros(n) == [i \in 1..n |-> "0"]

formatDecimalByCommodity(c, v) ==
    LET r == RuleOf(c)
        locale == IF r.locale # <<>> THEN r.locale ELSE sEnUS
        pat == detectLocalePattern(locale, r.currency)
        negative == v.negative
        abs == [v EXCEPT !.negative = FALSE]
        origDp == decimalPlaces(abs)
        minF == IF r.minFraction # <<>> THEN r.minFraction[1] ELSE 0
        finite == r.maxFraction # <<>>
        dpToKeep == IF finite THEN Min(origDp, r.maxFraction[1]) ELSE origDp
        raw == toFixedDown(abs, dpToKeep)
        dotIdx == IndexOf(raw, ".")
        intRaw == IF dotIdx > 0 THEN SubSeq(raw, 1, dotIdx - 1) ELSE raw
        fracAll == IF dotIdx > 0 THEN SubSeq(raw, dotIdx + 1, Len(raw)) ELSE <<>>
        trimmed == IF fracAll # <<>>
                   THEN SubSeq(fracAll, 1, TrimIndex(fracAll, Len(fracAll) - 1, minF) + 1)
                   ELSE fracAll
        fracRaw == IF trimmed = <<>> /\ minF > 0 THEN Zeros(minF) ELSE trimmed
        groupedInt == groupInteger(intRaw, pat.primaryGroup, pat.secondaryGroup, pat.groupSep)
        body == IF fracRaw # <<>> THEN groupedInt \o <<pat.decimalSep>> \o fracRaw
                ELSE groupedInt
        pre == IF r.currency # <<>> THEN pat.prefix
               ELSE IF r.symbol # <<>> THEN r.symbol \o <<" ">> ELSE <<>>
        post == IF r.currency # <<>> THEN pat.suffix ELSE <<>>
    IN  IF negative THEN <<pat.minusSign>> \o pre \o body \o post
        ELSE pre \o body \o post

Commodities == {sBRL, sUSD, sUSDT, sCET, sLoop, sXYZ}

IntParts == {0, 7, 12, 1234}

FracDigitChars == {"0", "5", "9"}

\* The fractions of at most MaxFracDigits digits, the last one not 0
Fractions ==
    {f \in UNION {[1..n -> FracDigitChars] : n \in 0..MaxFracDigits} :
        f = <<>> \/ f[Len(f)] # "0"}

\* The Decimal values; zero is not negative
Decimals ==
    {Decimal(neg, int, frac) : neg \in BOOLEAN, int \in IntParts, frac \in Fractions}
        \ {Decimal(TRUE, 0, <<>>)}

InitFormat ==
    /\ commodity \in Commodities
    /\ value \in Decimals
    /\ shown = <<>>
    /\ parsedBack = <<>>
    /\ pc = "value"
    /\ maxItems = 0
    /\ TreeIdle /\ FoldIdle /\ DiffIdle /\ ExtractIdle /\ AppIdle /\ RestIdle

\* AmountRow: formatDecimalByCommodity(currency, value)
FormatAmount ==
    /\ pc = "value"
    /\ shown' = formatDecimalByCommodity(commodity, value)
    /\ pc' = "shown"
    /\ UNCHANGED <<treeVars, foldVars, diffVars, extractVars, appVars, restVars, commodity, value,
                   parsedBack, maxItems>>

\* parseAmount of an amounts map that holds the string shown
ParseShown ==
    /\ pc = "shown"
    /\ parsedBack' = <<parseAmount(commodity :> shown, commodity)>>
    /\ pc' = "parsed"
    /\ UNCHANGED <<treeVars, foldVars, diffVars, extractVars, appVars, restVars, commodity, value,
                   shown, maxItems>>

NextFormat == FormatAmount \/ ParseShown

SpecFormat == InitFormat /\ [][NextFormat]_vars

\* The decimal separator of the commodity's locale
DecimalSepOf(c) ==
    detectLocalePattern(IF RuleOf(c).locale # <<>> THEN RuleOf(c).locale ELSE sEnUS,
                        RuleOf(c).currency).decimalSep

GroupSepOf(c) ==
    detectLocalePattern(IF RuleOf(c).locale # <<>> THEN RuleOf(c).locale ELSE sEnUS,
                        RuleOf(c).currency).groupSep

\* The digits shown after the decimal separator
ShownFraction ==
    LET k == IndexOf(shown, DecimalSepOf(commodity))
    IN  IF k = 0 THEN <<>> ELSE SubSeq(shown, k + 1, Len(shown))

\* The digits shown before the decimal separator, group separators left out
ShownInteger ==
    LET k == IndexOf(shown, DecimalSepOf(commodity))
        head == IF k = 0 THEN shown ELSE SubSeq(shown, 1, k - 1)
        F[i \in 0..Len(head)] ==
            IF i = 0 THEN <<>>
            ELSE IF IsDigit(head[i]) THEN Append(F[i - 1], head[i]) ELSE F[i - 1]
    IN  F[Len(head)]

MinFractionOf(c) == IF RuleOf(c).minFraction # <<>> THEN RuleOf(c).minFraction[1] ELSE 0

\* C11: formatDecimalByCommodity never rounds: the fraction digits shown are
\* the leading digits of the value's exact fraction (zeros after its last
\* digit), at most maxFraction of them, and the integer digits shown are
\* those of the value.
C11_Truncates ==
    pc \in {"shown", "parsed"} =>
        /\ \A i \in 1..Len(ShownFraction) :
              ShownFraction[i] = (IF i <= Len(value.frac) THEN value.frac[i] ELSE "0")
        /\ RuleOf(commodity).maxFraction # <<>> =>
              Len(ShownFraction) <= RuleOf(commodity).maxFraction[1]
        /\ ShownInteger = NumStr(value.int)

\* 1.999 with at most two fraction digits shows 1,99
C11_Witness ==
    /\ pc = "shown"
    /\ commodity = sCET
    /\ value = Decimal(FALSE, 1234, <<"9", "9", "9">>)
    /\ shown = <<"C", "E", "T", " ", "1", ".", "2", "3", "4", ",", "9", "9">>

\* C12 as stated: for every value, the fraction shown has at least
\* minFraction digits.
C12_PadsToMinimum ==
    pc \in {"shown", "parsed"} => Len(ShownFraction) >= MinFractionOf(commodity)

\* The value in hundredths, when it has at most two fraction digits
Hundredths(d) ==
    LET n == 100 * d.int + DigitsValue(FracDigits(d, 2))
    IN  IF d.negative THEN -n ELSE n

\* C13 as stated: formatting and then parsing returns the original value, for
\* every value whose fraction digits do not exceed the commodity's maximum
\* (and the two digits parseFloat is modelled with).
C13_RoundTrip ==
    (/\ pc = "parsed"
     /\ Len(value.frac) <= 2
     /\ RuleOf(commodity).maxFraction # <<>> =>
           Len(value.frac) <= RuleOf(commodity).maxFraction[1])
        => parsedBack = <<Hundredths(value)>>

----------------------------------------------------------------------------
(* AccountTree with Decimal amounts per currency: AccountNode *)

sBanco == <<"B", "a", "n", "c", "o">>

sCC == <<"C", "C">>

sCaixa == <<"C", "a", "i", "x", "a">>

\* "Líquido"; the element "i-acute" stands for the one character i with acute
sLiquidoAccent == <<"L", "i-acute", "q", "u", "i", "d", "o">>

sLiquidoLower == <<"l", "i", "q", "u", "i", "d", "o">>

\* String.prototype.normalize('NFD'): a letter with accent becomes the letter
\* and the combining accent
NFD(s) ==
    LET F[i \in 0..Len(s)] ==
            IF i = 0 THEN <<>>
            ELSE IF s[i] = "i-acute" THEN F[i - 1] \o <<"i", "acute">>
            ELSE Append(F[i - 1], s[i])
    IN  F[Len(s)]

\* replace(/\p{Diacritic}/gu, '')
StripDiacritics(s) ==
    LET F[i \in 0..Len(s)] ==
            IF i = 0 THEN <<>>
            ELSE IF s[i] = "acute" THEN F[i - 1] ELSE Append(F[i - 1], s[i])
    IN  F[Len(s)]

norm(s) == toLowerCase(StripDiacritics(NFD(s)))

\* An account with its Decimal amounts per currency (AccWithBig)
AccNode(name, path, amounts, kids) ==
    [account |-> name, fullPath |-> path, amountsBigInt |-> amounts, children |-> kids]

\* The accounts of the ledger the server reads, as getBalance returns them
LedgerAccounts ==
    <<AccNode(sAtivos, sAtivos, sBRL :> 5 @@ sUSD :> 0,
              <<AccNode(sBanco, Join(<<sAtivos, sBanco>>), sBRL :> 5 @@ sUSD :> -7,
                        <<AccNode(sCC, Join(<<sAtivos, sBanco, sCC>>),
                                  sBRL :> 5 @@ sUSD :> 5, <<>>)>>)>>),
      AccNode(sLiquidoAccent, sLiquidoAccent, sBRL :> 12,
              <<AccNode(sCaixa, Join(<<sLiquidoAccent, sCaixa>>),
                        sBRL :> 0 @@ sUSD :> 0, <<>>)>>)>>

\* Decimal.prototype.isZero
isZero(d) == d = 0

\* The entries of amountsBigInt, every one of them
AllAmounts(acc) ==
    {[currency |-> c, value |-> acc.amountsBigInt[c]] : c \in DOMAIN acc.amountsBigInt}

\* Object.entries(acc.amountsBigInt).filter(([_, d]) => !d.isZero())
NonZeroEntries(acc) ==
    {[currency |-> c, value |-> acc.amountsBigInt[c]] :
        c \in {k \in DOMAIN acc.amountsBigInt : ~isZero(acc.amountsBigInt[k])}}

\* The comparator of getNonZeroAmounts: a goes before b
GoesBefore(a, b) ==
    \/ Abs(b.value) < Abs(a.value)
    \/ Abs(b.value) = Abs(a.value) /\ localeCompare(a.currency, b.currency) < 0

RECURSIVE SortEntries(_)
SortEntries(S) ==
    IF S = {} THEN <<>>
    ELSE LET first == CHOOSE a \in S : \A b \in S \ {a} : GoesBefore(a, b)
         IN  <<first>> \o SortEntries(S \ {first})

getNonZeroAmounts(acc) == SortEntries(NonZeroEntries(acc))

hasChildren(acc) == Len(acc.children) > 0

accountPath(acc) == IF acc.fullPath # <<>> THEN acc.fullPath ELSE acc.account

isLiquidoNode(acc) == norm(Split(acc.account)[1]) = sLiquidoLower

\* onSelect?.(accountPath, hasChildren): the second argument not negated
ShowTransactionsInverted(acc) == hasChildren(acc)

\* The second argument of onSelect?.(accountPath, !hasChildren)
showTransactionsOf(acc) == ~hasChildren(acc)

\* The AccountNode components of a list of accounts under the component at
\* chain, as pairs <<key chain, isExpanded>>: a component React already holds
\* (same keys from the root) keeps its state, a new one starts at
\* useState(!isLiquidoNode); children are rendered under isExpanded only
RECURSIVE MountNodes(_, _, _)
MountNodes(accs, chain, old) ==
    UNION {LET acc == accs[i]
               key == Append(chain, accountPath(acc))
               flag == IF key \in DOMAIN old THEN old[key] ELSE ~isLiquidoNode(acc)
           IN  {<<key, flag>>} \cup
                   (IF flag /\ hasChildren(acc) THEN MountNodes(acc.children, key, old)
                    ELSE {})
           : i \in 1..Len(accs)}

\* The content branch of App that renders AccountTree
TreeShown(d, loading, budget, diff, mon, showChart, sel, tx) ==
    /\ d # <<>>
    /\ ~loading
    /\ ~budget
    /\ ~(diff /\ mon)
    /\ ~(showChart /\ sel = <<>> /\ tx = <<>>)
    /\ Len(d[1].account.children) > 0

\* isExpanded of the AccountNode components after a render
Render(old, d, loading, budget, diff, mon, showChart, sel, tx) ==
    LET S == IF TreeShown(d, loading, budget, diff, mon, showChart, sel, tx)
             THEN MountNodes(d[1].account.children, <<>>, old)
             ELSE {}
    IN  IF S = {} THEN <<>>
        ELSE [k \in {p[1] : p \in S} |-> CHOOSE f \in BOOLEAN : <<k, f>> \in S]

\* The account a mounted AccountNode renders
AccountAt(chain) ==
    CHOOSE acc \in AllNodes(data[1].account.children) :
        accountPath(acc) = chain[Len(chain)]

\* The server: the accounts under the account of the path; none if unknown
SubAccounts(path) ==
    IF \E acc \in AllNodes(LedgerAccounts) : accountPath(acc) = path
    THEN (CHOOSE acc \in AllNodes(LedgerAccounts) : accountPath(acc) = path).children
    ELSE <<>>

----------------------------------------------------------------------------
(* App: the requests, their settling, and the handlers of the page *)

\* A request awaited by a handler of App
Request(id, handler, call, account) ==
    [id |-> id, handler |-> handler, call |-> call, account |-> account]

\* The commands the select and the buttons of Controls can set
Commands == {"bal", "reg"}

\* The accounts typed into the search box of Controls
SearchAccounts == {sAtivos}

\* The API call of loadData
LoadDataCall == IF currentCommand = "flow" THEN "getCashFlow" ELSE "getBalance"

\* The API call of handleAccountSearch
AccountSearchCall(showTransactions) ==
    IF currentCommand = "flow" THEN "getAccountCashFlow"
    ELSE IF showTransactions THEN "getAccountTransactions"
    ELSE "getAccountBalance"

\* The render that follows the state updates of a handler
Rerender ==
    expanded' = Render(expanded, data', isLoading', showBudget', showExpenseDiff', months',
                       showExpenseChart', selectedAccount', transactionData')

\* The handler issues one more request
Issue(handler, call, account) ==
    /\ issued < MaxRequests
    /\ issued' = issued + 1
    /\ pending' = pending \cup {Request(issued + 1, handler, call, account)}

loadData ==
    /\ isLoading' = TRUE
    /\ error' = "null"
    /\ Issue("loadData", LoadDataCall, <<>>)

loadBudgetData ==
    /\ isLoading' = TRUE
    /\ error' = "null"
    /\ selectedAccount' = <<>>
    /\ showExpenseChart' = FALSE
    /\ showExpenseDiff' = FALSE
    /\ Issue("loadBudgetData", "getBudgetReport", <<>>)

handleAccountSearch(account, showTransactions) ==
    /\ isLoading' = TRUE
    /\ error' = "null"
    /\ selectedAccount' = account
    /\ showExpenseChart' = FALSE
    /\ showExpenseDiff' = FALSE
    /\ showBudget' = FALSE
    /\ Issue("handleAccountSearch", AccountSearchCall(showTransactions), account)
    /\ UNCHANGED <<sliceVars, months, currentCommand, settled>>
    /\ Rerender

\* The row of an AccountNode is there to be clicked: the node is mounted and
\* renders at least one currency row
RowShown(chain) ==
    /\ chain \in DOMAIN expanded
    /\ Len(getNonZeroAmounts(AccountAt(chain))) > 0

\* AccountNode.handleClick: onClick of the div that holds the currency rows
HandleClick(chain) ==
    /\ chain \in DOMAIN expanded
    /\ handleAccountSearch(accountPath(AccountAt(chain)), showTransactionsOf(AccountAt(chain)))
    /\ UNCHANGED <<treeVars, foldVars, diffVars, extractVars, formatVars, restVars, maxItems, pc>>

\* setIsExpanded((v) => !v) of every mounted node at once
ToggleAllFlags(flags, chain) == [k \in DOMAIN flags |-> ~flags[k]]

\* setIsExpanded((v) => !v) of the AccountNode at chain
ToggleFlags(flags, chain) == [flags EXCEPT ![chain] = ~flags[chain]]

\* AccountNode.handleToggle: the button is on the first row of a node with
\* children
HandleToggle(chain) ==
    /\ UNCHANGED <<sliceVars, viewVars, isLoading, error, pending, issued, settled>>
    /\ RowShown(chain)
    /\ hasChildren(AccountAt(chain))
    /\ expanded' = Render(ToggleFlags(expanded, chain), data, isLoading, showBudget,
                          showExpenseDiff, months, showExpenseChart, selectedAccount,
                          transactionData)
    /\ UNCHANGED <<treeVars, foldVars, diffVars, extractVars, formatVars, restVars, maxItems, pc>>

\* Controls.handleAccountSearch: onAccountSearch(searchAccount.trim())
ControlsSearch(account) ==
    /\ handleAccountSearch(account, FALSE)
    /\ UNCHANGED <<treeVars, foldVars, diffVars, extractVars, formatVars, restVars, maxItems, pc>>

\* handleRefresh; the button is disabled while loading
HandleRefresh ==
    /\ ~isLoading
    /\ IF showBudget
       THEN /\ loadBudgetData
            /\ UNCHANGED <<sliceVars, months, currentCommand, showBudget, settled>>
            /\ Rerender
       ELSE IF selectedAccount # <<>>
       THEN handleAccountSearch(selectedAccount, FALSE)
       ELSE /\ loadData
            /\ UNCHANGED <<sliceVars, viewVars, settled>>
            /\ Rerender
    /\ UNCHANGED <<treeVars, foldVars, diffVars, extractVars, formatVars, restVars, maxItems, pc>>

handleCommandChange(command) ==
    /\ currentCommand' = command
    /\ selectedAccount' = <<>>
    /\ showExpenseChart' = FALSE
    /\ showExpenseDiff' = FALSE
    /\ showBudget' = FALSE
    /\ UNCHANGED <<sliceVars, months, isLoading, error, pending, issued, settled>>
    /\ Rerender
    /\ UNCHANGED <<treeVars, foldVars, diffVars, extractVars, formatVars, restVars, maxItems, pc>>

\* The row of action buttons is rendered
ButtonsShown ==
    \/ data # <<>> /\ selectedAccount = <<>> /\ transactionData = <<>>
    \/ budgetData # <<>>

toggleBudgetView ==
    /\ ButtonsShown
    /\ IF ~showBudget
       THEN /\ loadBudgetData
            /\ UNCHANGED settled
       ELSE /\ selectedAccount' = <<>>
            /\ showExpenseChart' = FALSE
            /\ showExpenseDiff' = FALSE
            /\ UNCHANGED <<isLoading, error, pending, issued, settled>>
    /\ showBudget' = ~showBudget
    /\ transactionData' = <<>>
    /\ UNCHANGED <<data, cashFlowData, budgetData, months, currentCommand>>
    /\ Rerender
    /\ UNCHANGED <<treeVars, foldVars, diffVars, extractVars, formatVars, restVars, maxItems, pc>>

toggleExpenseChart ==
    /\ ButtonsShown /\ data # <<>> /\ ~showBudget
    /\ showExpenseChart' = ~showExpenseChart
    /\ showExpenseDiff' = FALSE
    /\ showBudget' = FALSE
    /\ selectedAccount' = <<>>
    /\ transactionData' = <<>>
    /\ UNCHANGED <<data, cashFlowData, budgetData, months, currentCommand, isLoading, error,
                   pending, issued, settled>>
    /\ Rerender
    /\ UNCHANGED <<treeVars, foldVars, diffVars, extractVars, formatVars, restVars, maxItems, pc>>

\* The onClick of the Compare Months button
ToggleExpenseDiff ==
    /\ ButtonsShown /\ data # <<>> /\ ~showBudget
    /\ showExpenseDiff' = ~showExpenseDiff
    /\ showExpenseChart' = FALSE
    /\ selectedAccount' = <<>>
    /\ transactionData' = <<>>
    /\ UNCHANGED <<data, cashFlowData, budgetData, months, currentCommand, showBudget,
                   isLoading, error, pending, issued, settled>>
    /\ Rerender
    /\ UNCHANGED <<treeVars, foldVars, diffVars, extractVars, formatVars, restVars, maxItems, pc>>

\* loadCompareData; bothPeriods says whether the two period inputs are filled
loadCompareData(bothPeriods) ==
    /\ data # <<>> /\ selectedAccount = <<>> /\ transactionData = <<>>
    /\ ~showBudget /\ showExpenseDiff
    /\ IF ~bothPeriods
       THEN /\ error' = "Please choose both periods to compare."
            /\ UNCHANGED <<isLoading, selectedAccount, showExpenseChart, showBudget, pending,
                           issued>>
       ELSE /\ isLoading' = TRUE
            /\ error' = "null"
            /\ selectedAccount' = <<>>
            /\ showExpenseChart' = FALSE
            /\ showBudget' = FALSE
            /\ Issue("loadCompareData", "getBalance, getBalance", <<>>)
    /\ UNCHANGED <<sliceVars, months, currentCommand, showExpenseDiff, settled>>
    /\ Rerender
    /\ UNCHANGED <<treeVars, foldVars, diffVars, extractVars, formatVars, restVars, maxItems, pc>>

\* The onClick of Show All Accounts, under the tree of a selected account
ClearSelection ==
    /\ data # <<>> /\ ~isLoading /\ ~showBudget /\ ~(showExpenseDiff /\ months)
    /\ selectedAccount # <<>>
    /\ selectedAccount' = <<>>
    /\ loadData
    /\ UNCHANGED <<sliceVars, months, currentCommand, showExpenseChart, showBudget,
                   showExpenseDiff, settled>>
    /\ Rerender
    /\ UNCHANGED <<treeVars, foldVars, diffVars, extractVars, formatVars, restVars, maxItems, pc>>

\* The branches of the page below the controls
BudgetShown == budgetData # <<>> /\ showBudget /\ ~isLoading

ContentShown == data # <<>> /\ ~isLoading /\ ~showBudget

CashFlowShown == cashFlowData # <<>> /\ ~isLoading

TransactionsShown == transactionData # <<>>

EmptyStateShown == data = <<>> /\ budgetData = <<>> /\ ~isLoading /\ error = "null"

\* The Load Data button of the empty state: onClick={loadData}
EmptyStateLoad ==
    /\ EmptyStateShown
    /\ loadData
    /\ UNCHANGED <<sliceVars, viewVars, settled>>
    /\ Rerender
    /\ UNCHANGED <<treeVars, foldVars, diffVars, extractVars, formatVars, restVars, maxItems, pc>>

\* A LedgerBalanceResponse: the accounts under its root account; request names
\* the request it answers
BalanceResponse(children, id) == [account |-> [children |-> children], request |-> id]

\* What the handler awaiting r sets the four slices to when r resolves
SlicesOf(r) ==
    IF r.call \in {"getCashFlow", "getAccountCashFlow"}
    THEN [data |-> <<>>, transactionData |-> <<>>,
          cashFlowData |-> <<[account |-> r.account, request |-> r.id]>>, budgetData |-> <<>>]
    ELSE IF r.call = "getBalance"
    THEN [data |-> <<BalanceResponse(LedgerAccounts, r.id)>>, transactionData |-> <<>>,
          cashFlowData |-> <<>>, budgetData |-> <<>>]
    ELSE IF r.call = "getAccountBalance"
    THEN [data |-> <<BalanceResponse(SubAccounts(r.account), r.id)>>,
          transactionData |-> <<>>, cashFlowData |-> <<>>, budgetData |-> <<>>]
    ELSE IF r.call = "getAccountTransactions"
    THEN [data |-> <<>>, transactionData |-> <<[account |-> r.account, request |-> r.id]>>,
          cashFlowData |-> <<>>, budgetData |-> <<>>]
    ELSE IF r.call = "getBudgetReport"
    THEN [data |-> <<>>, transactionData |-> <<>>, cashFlowData |-> <<>>,
          budgetData |-> <<[request |-> r.id]>>]
    ELSE [data |-> data, transactionData |-> transactionData,
          cashFlowData |-> cashFlowData, budgetData |-> budgetData]

\* The slices after r resolves if a response older than the last request
\* issued were dropped
SlicesIfLatest(r) ==
    IF r.id = issued THEN SlicesOf(r)
    ELSE [data |-> data, transactionData |-> transactionData,
          cashFlowData |-> cashFlowData, budgetData |-> budgetData]

\* The slices after r resolves if the handler set its own slice only and left
\* the other three as they were
SlicesKeepOthers(r) ==
    LET set == SlicesOf(r)
    IN  [data |-> IF set.data # <<>> THEN set.data ELSE data,
         transactionData |-> IF set.transactionData # <<>> THEN set.transactionData
                             ELSE transactionData,
         cashFlowData |-> IF set.cashFlowData # <<>> THEN set.cashFlowData
                          ELSE cashFlowData,
         budgetData |-> IF set.budgetData # <<>> THEN set.budgetData ELSE budgetData]

\* The slices after r resolves: the handler sets them whatever was issued since
ResolveSlices(r) == SlicesOf(r)

\* The await of r returns a response
Resolve(r) ==
    /\ r \in pending
    /\ LET after == ResolveSlices(r)
       IN  /\ data' = after.data
           /\ transactionData' = after.transactionData
           /\ cashFlowData' = after.cashFlowData
           /\ budgetData' = after.budgetData
    /\ months' = (months \/ r.handler = "loadCompareData")
    /\ isLoading' = FALSE
    /\ pending' = pending \ {r}
    /\ settled' = Append(settled, r)
    /\ UNCHANGED <<selectedAccount, currentCommand, showExpenseChart, showBudget,
                   showExpenseDiff, error, issued>>
    /\ Rerender
    /\ UNCHANGED <<treeVars, foldVars, diffVars, extractVars, formatVars, restVars, maxItems, pc>>

\* No error text
FailureMessageNone(r) == "null"

\* err.response?.data?.error || err.message || the handler's own text; the
\* model keeps the handler's text
FailureMessage(r) ==
    IF r.handler = "loadData" THEN "Failed to load data"
    ELSE IF r.handler = "loadBudgetData" THEN "Failed to load budget data"
    ELSE IF r.handler = "handleAccountSearch" THEN "Failed to search account"
    ELSE "Failed to load comparison data"

\* The await of r throws
Reject(r) ==
    /\ r \in pending
    /\ error' = FailureMessage(r)
    /\ isLoading' = FALSE
    /\ pending' = pending \ {r}
    /\ UNCHANGED <<sliceVars, viewVars, issued, settled>>
    /\ Rerender
    /\ UNCHANGED <<treeVars, foldVars, diffVars, extractVars, formatVars, restVars, maxItems, pc>>

\* The App after its first render and the effect that calls loadData
InitApp ==
    /\ data = <<>> /\ transactionData = <<>> /\ cashFlowData = <<>> /\ budgetData = <<>>
    /\ months = FALSE
    /\ isLoading = TRUE
    /\ error = "null"
    /\ selectedAccount = <<>>
    /\ currentCommand = "bal"
    /\ showExpenseChart = FALSE /\ showBudget = FALSE /\ showExpenseDiff = FALSE
    /\ pending = {Request(1, "loadData", "getBalance", <<>>)}
    /\ issued = 1
    /\ settled = <<>>
    /\ expanded = <<>>
    /\ pc = "app"
    /\ maxItems = 0
    /\ TreeIdle /\ FoldIdle /\ DiffIdle /\ ExtractIdle /\ FormatIdle /\ RestIdle

NextApp ==
    \/ \E chain \in DOMAIN expanded : HandleClick(chain)
    \/ \E chain \in DOMAIN expanded : HandleToggle(chain)
    \/ \E account \in SearchAccounts : ControlsSearch(account)
    \/ HandleRefresh
    \/ \E command \in Commands : handleCommandChange(command)
    \/ toggleBudgetView
    \/ toggleExpenseChart
    \/ ToggleExpenseDiff
    \/ \E bothPeriods \in BOOLEAN : loadCompareData(bothPeriods)
    \/ ClearSelection
    \/ EmptyStateLoad
    \/ \E r \in pending : Resolve(r)
    \/ \E r \in pending : Reject(r)

SpecApp == InitApp /\ [][NextApp]_vars

----------------------------------------------------------------------------
(* Properties of the account tree and of the page *)

\* amounts.map((a, i) => renderCurrencyRow(a, i === 0)) of the node at chain
CurrencyRows(chain) == getNonZeroAmounts(AccountAt(chain))

\* The currencies of the account whose amount is not zero
NonZeroCurrencies(acc) == {c \in DOMAIN acc.amountsBigInt : acc.amountsBigInt[c] # 0}

\* C14: the currency rows rendered for a node are exactly its non-zero
\* currencies: one row for each currency whose amount is not zero, with that
\* amount, and no row for a currency whose amount is zero.
C14_RowsAreNonZeroCurrencies ==
    \A chain \in DOMAIN expanded :
        LET acc == AccountAt(chain)
            shownRows == CurrencyRows(chain)
        IN  /\ {shownRows[i].currency : i \in 1..Len(shownRows)} = NonZeroCurrencies(acc)
            /\ Len(shownRows) = Cardinality(NonZeroCurrencies(acc))
            /\ \A i \in 1..Len(shownRows) : shownRows[i].value = acc.amountsBigInt[shownRows[i].currency]

\* A rendered node with a zero currency beside a non-zero one, and a rendered
\* node all of whose amounts are zero
C14_Witness ==
    /\ \E chain \in DOMAIN expanded :
          LET acc == AccountAt(chain)
          IN  /\ NonZeroCurrencies(acc) # {}
              /\ NonZeroCurrencies(acc) # DOMAIN acc.amountsBigInt
              /\ Len(CurrencyRows(chain)) = 1
    /\ \E chain \in DOMAIN expanded :
          /\ NonZeroCurrencies(AccountAt(chain)) = {}
          /\ CurrencyRows(chain) = <<>>

\* C15: selecting a node without children issues a transactions request for
\* its path, selecting a node with children issues a balance request scoped to
\* its path, whatever state the page is in.
C15_SelectIssuesRequest ==
    [][\A chain \in DOMAIN expanded :
          HandleClick(chain) =>
              LET acc == AccountAt(chain)
              IN  \E r \in pending' \ pending :
                      /\ pending' = pending \cup {r}
                      /\ r.account = accountPath(acc)
                      /\ r.call = IF hasChildren(acc) THEN "getAccountBalance"
                                  ELSE "getAccountTransactions"]_vars

\* Ativos:Banco was selected in the tree of all accounts (the second request
\* of the page, a Controls search being for Ativos only) and its balance came
\* back; then its one child, a leaf, was selected
C15_Witness ==
    /\ \E i \in 1..Len(settled) :
          /\ settled[i].id = 2
          /\ settled[i].call = "getAccountBalance"
          /\ settled[i].account = Join(<<sAtivos, sBanco>>)
    /\ \E r \in pending :
          /\ r.call = "getAccountTransactions"
          /\ r.account = Join(<<sAtivos, sBanco, sCC>>)

\* The key chain a is a proper prefix of the key chain b: the component at b
\* is rendered inside the component at a
IsAncestorChain(a, b) ==
    /\ Len(a) < Len(b)
    /\ \A i \in 1..Len(a) : a[i] = b[i]

\* C16: toggling a node flips the expanded/collapsed flag of that node and
\* leaves the flag of every node that is not below it, its siblings and its
\* ancestors among them, as it was.
C16_ToggleIsLocal ==
    [][\A chain \in DOMAIN expanded :
          HandleToggle(chain) =>
              /\ chain \in DOMAIN expanded'
              /\ expanded'[chain] = ~expanded[chain]
              /\ \A other \in DOMAIN expanded :
                    (other # chain /\ ~IsAncestorChain(chain, other)) =>
                        /\ other \in DOMAIN expanded'
                        /\ expanded'[other] = expanded[other]]_vars

\* Ativos:Banco has been collapsed under Ativos, still expanded, and the
\* sibling of Ativos has been expanded
C16_Witness ==
    /\ <<sAtivos, Join(<<sAtivos, sBanco>>)>> \in DOMAIN expanded
    /\ ~expanded[<<sAtivos, Join(<<sAtivos, sBanco>>)>>]
    /\ expanded[<<sAtivos>>]
    /\ <<sLiquidoAccent>> \in DOMAIN expanded
    /\ expanded[<<sLiquidoAccent>>]

\* Toggling a node leaves selectedAccount and the requests as they were
ToggleKeepsSelection ==
    \A chain \in DOMAIN expanded :
        HandleToggle(chain) =>
            /\ selectedAccount' = selectedAccount
            /\ pending' = pending
            /\ issued' = issued

\* Selecting a node leaves the expanded/collapsed state of every node as it was
SelectKeepsExpanded ==
    \A chain \in DOMAIN expanded : HandleClick(chain) => expanded' = expanded

\* C17: selection and expand/collapse are independent: toggling a node never
\* changes selectedAccount and issues no request, and selecting a node never
\* changes the expanded/collapsed state of any node.
C17_SelectionIndependentOfExpansion ==
    [][ToggleKeepsSelection /\ SelectKeepsExpanded]_vars

ToggleNeverSelects == [][ToggleKeepsSelection]_vars

\* The state an AccountNode starts in: expanded, unless the first segment of
\* its name is Liquido
InitialFlag(acc) == ~isLiquidoNode(acc)

\* A node that is rendered after a step and was not before is in its initial
\* state
StartsInitial ==
    \A chain \in DOMAIN expanded' \ DOMAIN expanded :
        expanded'[chain] = InitialFlag(AccountAt(chain)')

\* After a step that puts a new response in data, every rendered node is in
\* its initial state
ReplacedListResets ==
    (data' # data /\ data' # <<>>) =>
        \A chain \in DOMAIN expanded' :
            expanded'[chain] = InitialFlag(AccountAt(chain)')

\* C18: every node starts expanded, except the nodes named Liquido (whatever
\* the accents and the case), which start collapsed; and whenever the account
\* list is replaced by a new response, the earlier toggles are discarded and
\* every node is in that initial state again.
C18_ExpandLifecycle == [][StartsInitial /\ ReplacedListResets]_vars

NodesStartInitial == [][StartsInitial]_vars

\* The resolved requests whose handler went on to set the data slices: the
\* positions in settled of the requests of loadData, loadBudgetData and
\* handleAccountSearch
SliceWrites == {i \in 1..Len(settled) : settled[i].handler # "loadCompareData"}

\* The position in settled of the request that resolved last
LastWrite == CHOOSE i \in SliceWrites : \A j \in SliceWrites : j <= i

\* C19: overlapping requests are last-write-wins by the order they resolve in:
\* the slices only resolutions set (data, cashFlowData, budgetData) hold what
\* the request that resolved last put there, also when a request issued after
\* it had resolved before it.
C19_LastResolutionWins ==
    SliceWrites # {} =>
        LET won == SlicesOf(settled[LastWrite])
        IN  /\ data = won.data
            /\ cashFlowData = won.cashFlowData
            /\ budgetData = won.budgetData

\* R1 was issued before R2, both for data, R2 resolved first and R1 after it:
\* data holds the response to R1
C19_Witness ==
    /\ SliceWrites # {}
    /\ \E i \in SliceWrites :
          /\ i < LastWrite
          /\ settled[i].id > settled[LastWrite].id
          /\ SlicesOf(settled[i]).data # <<>>
          /\ data # <<>>
          /\ data[1].request = settled[LastWrite].id

\* C20: when a data request fails, the error text is set and loading ends, and
\* nothing else of the state of the page changes: data, transactionData,
\* cashFlowData and budgetData keep their values, the selection, the command
\* and the view flags too, and no request is issued.
C20_FailureOnlySetsError ==
    [][\A r \in pending :
          Reject(r) =>
              /\ error' # "null"
              /\ isLoading' = FALSE
              /\ data' = data
              /\ transactionData' = transactionData
              /\ cashFlowData' = cashFlowData
              /\ budgetData' = budgetData
              /\ viewVars' = viewVars
              /\ issued' = issued
              /\ pending' = pending \ {r}]_vars

\* A search failed after an earlier request had put a response in data: the
\* response is still there beside the error text, and nothing is awaited
C20_Witness ==
    /\ settled # <<>>
    /\ data # <<>>
    /\ data[1].request = settled[Len(settled)].id
    /\ error = "Failed to search account"
    /\ ~isLoading
    /\ pending = {}

\* C24: isLoading is true whenever a request started by loadData,
\* loadBudgetData, handleAccountSearch or loadCompareData is still awaited.
C24_LoadingWhileInFlight == pending # {} => isLoading

\* C25: whenever nothing is loading and error is null, at least one of the
\* account content, the budget view, the cash-flow view, the transactions
\* table and the empty-state prompt is displayed.
C25_SomethingDisplayed ==
    (~isLoading /\ error = "null") =>
        \/ ContentShown
        \/ BudgetShown
        \/ CashFlowShown
        \/ TransactionsShown
        \/ EmptyStateShown

\* The slices that are not null
NonNullSlices ==
    {i \in 1..4 : <<data, transactionData, cashFlowData, budgetData>>[i] # <<>>}

\* C26: in every reachable state at most one of data, transactionData,
\* cashFlowData and budgetData is non-null.
C26_AtMostOneSlice == Cardinality(NonNullSlices) <= 1

\* Responses to two different calls have come back, the one issued later
\* first, and one slice is set
C26_Witness ==
    /\ Cardinality(NonNullSlices) = 1
    /\ Len(settled) >= 2
    /\ \E i, j \in 1..Len(settled) :
          /\ i < j
          /\ settled[i].id > settled[j].id
          /\ settled[i].call # settled[j].call

----------------------------------------------------------------------------
(* Properties of the three charts together *)

\* Any of the three charts renders its props
InitCharts == InitFold \/ InitDiff

NextCharts == NextFold \/ NextDiff

SpecCharts == InitCharts /\ [][NextCharts]_vars

\* The sum of the amount fields of a list of rows
AmountTotal(list) == SumSeq([i \in 1..Len(list) |-> list[i].amount])

FlaggedTotal ==
    SumSeq([i \in 1..Len(withCumulative) |->
               IF withCumulative[i].isInTop80 THEN withCumulative[i].amount ELSE 0])

\* C28: in the Pareto bar chart top80Total is the sum of the amounts of
\* exactly the rows flagged isInTop80, the rows whose running cumulative
\* amount is at most 80% of the total, for every list of non-negative amounts.
C28_Top80TotalIsFlaggedSum ==
    (pc = "rendered" /\ chart = "bar") => top80Total = FlaggedTotal

----------------------------------------------------------------------------
(* The conversions of an amount string of a response *)

\* parseAmount of ExpenseChart
parseAmountOfChart(amounts, currency) ==
    LET first == Lookup(amounts, currency)
        second == Lookup(amounts, toLowerCase(currency))
        amountStr == IF first # <<>> THEN first ELSE IF second # <<>> THEN second ELSE <<"0">>
        cleanValue == ReplaceFirstComma(RemoveDots(amountStr))
        parsed == parseFloat(cleanValue)
    IN  IF parsed = <<>> THEN 0 ELSE parsed[1]

\* The strings decimal.js takes after the sign: digits, digits with a point
\* and maybe digits after it, or a point and digits
IsDecimalLiteral(s) ==
    LET n == DigitPrefix(s)
        afterInt == SubSeq(s, n + 1, Len(s))
        hasPoint == Len(afterInt) > 0 /\ afterInt[1] = "."
        frac == IF hasPoint THEN Tail(afterInt) ELSE <<>>
    IN  /\ hasPoint \/ afterInt = <<>>
        /\ \A i \in 1..Len(frac) : IsDigit(frac[i])
        /\ n > 0 \/ Len(frac) > 0

\* new Decimal(value) of a string: <<v>> with v in hundredths, or <<>> when the
\* constructor throws [DecimalError] Invalid argument
NewDecimal(s) ==
    LET signed == Len(s) > 0 /\ s[1] \in {"-", "+"}
        t == IF signed THEN Tail(s) ELSE s
    IN  IF ~IsDecimalLiteral(t) THEN <<>>
        ELSE IF signed /\ s[1] = "-" THEN <<-UnsignedLiteral(t)[1]>>
        ELSE UnsignedLiteral(t)

\* The characters of the amount strings
AmountChars == {"1", ",", ".", "-", "x"}

\* The amount strings: every string of at most MaxStringLen characters
ApiStrings == UNION {[1..n -> AmountChars] : n \in 0..MaxStringLen}

InitParse ==
    /\ apiString \in ApiStrings
    /\ converted = <<>>
    /\ pc = "string"
    /\ maxItems = 0
    /\ TreeIdle /\ FoldIdle /\ DiffIdle /\ ExtractIdle /\ FormatIdle /\ AppIdle
    /\ CashIdle /\ RenderIdle

\* App.parseAmount({BRL: apiString}, 'BRL')
ParseAmountOfApp ==
    /\ pc = "string"
    /\ converted' = [by |-> "App", threw |-> FALSE,
                     number |-> parseAmount(sBRL :> apiString, sBRL)]
    /\ pc' = "converted"
    /\ UNCHANGED <<treeVars, foldVars, diffVars, extractVars, formatVars, appVars, cashVars,
                   renderVars, apiString, maxItems>>

\* parseAmount of ExpenseChart on {BRL: apiString}
ParseAmountOfChart ==
    /\ pc = "string"
    /\ converted' = [by |-> "ExpenseChart", threw |-> FALSE,
                     number |-> parseAmountOfChart(sBRL :> apiString, sBRL)]
    /\ pc' = "converted"
    /\ UNCHANGED <<treeVars, foldVars, diffVars, extractVars, formatVars, appVars, cashVars,
                   renderVars, apiString, maxItems>>

\* attachBigInts on an account whose amounts are {BRL: apiString}
AttachBigInts ==
    /\ pc = "string"
    /\ converted' = LET d == NewDecimal(apiString)
                    IN  IF d = <<>> THEN [by |-> "api", threw |-> TRUE, number |-> 0]
                        ELSE [by |-> "api", threw |-> FALSE, number |-> d[1]]
    /\ pc' = "converted"
    /\ UNCHANGED <<treeVars, foldVars, diffVars, extractVars, formatVars, appVars, cashVars,
                   renderVars, apiString, maxItems>>

NextParse == ParseAmountOfApp \/ ParseAmountOfChart \/ AttachBigInts

SpecParse == InitParse /\ [][NextParse]_vars

\* No character of the string is a digit: nothing in it can be read as a number
HasNoDigit(s) == \A i \in 1..Len(s) : ~IsDigit(s[i])

\* C21: converting a malformed amount string never throws: wherever an amount
\* string of a response is converted to a number or to a Decimal, a string that
\* cannot be parsed gives zero.
C21_MalformedYieldsZero ==
    pc = "converted" =>
        /\ ~converted.threw
        /\ HasNoDigit(apiString) => converted.number = 0

\* The two parseAmount functions never throw and give zero for a string
\* without a digit
ParseAmountFallsBack ==
    (pc = "converted" /\ ~converted.threw /\ HasNoDigit(apiString)) => converted.number = 0

\* ---------------------------------------------------------------------------
\* Rendering a tree of accounts that carry BigInt amounts
\* ---------------------------------------------------------------------------

\* An account of a response: amountsBigInt and clearedAmountsBigInt are
\* optional fields, <<>> when absent
BigAccount(name, path, big, cleared, kids) ==
    [account |-> name, fullPath |-> path, amountsBigInt |-> big,
     clearedAmountsBigInt |-> cleared, children |-> kids]

OptionalBig == {<<>>, <<[BRL |-> 1]>>}

\* Two top accounts with one child each; every node has or lacks either field
BigForests ==
    { << BigAccount(sAtivos, sAtivos, b[1], c[1],
             << BigAccount(sBanco, sAtivos \o <<":">> \o sBanco, b[2], c[2], <<>>) >>),
         BigAccount(sLiquidoAccent, sLiquidoAccent, b[3], c[3],
             << BigAccount(sCaixa, sLiquidoAccent \o <<":">> \o sCaixa, b[4], c[4], <<>>) >>) >> :
      b \in [1..4 -> OptionalBig], c \in [1..4 -> OptionalBig] }

\* assertHasBig of the tree with collapsible Liquido nodes: TRUE when it returns,
\* FALSE when it throws 'amountsBigInt is missing'
assertHasBig(acc) == ~(acc.amountsBigInt = <<>> \/ acc.clearedAmountsBigInt = <<>>)

\* assertHasBig of the later tree
assertHasBigOnly(acc) == ~(acc.amountsBigInt = <<>>)

\* The nodes the first render reaches: every root, and the children of a node
\* whose isExpanded starts true
RECURSIVE RenderedUnder(_, _)
RenderedUnder(acc, liquidoCollapsed) ==
    {acc} \cup
    IF hasChildren(acc) /\ ~(liquidoCollapsed /\ isLiquidoNode(acc))
    THEN UNION {RenderedUnder(acc.children[i], liquidoCollapsed) : i \in 1..Len(acc.children)}
    ELSE {}

RenderedNodes(accs, liquidoCollapsed) ==
    UNION {RenderedUnder(accs[i], liquidoCollapsed) : i \in 1..Len(accs)}

InitRender ==
    /\ bigAccounts \in BigForests
    /\ raised = "no"
    /\ pc = "response"
    /\ maxItems = 0
    /\ TreeIdle /\ FoldIdle /\ DiffIdle /\ ExtractIdle /\ FormatIdle /\ AppIdle
    /\ CashIdle /\ ParseIdle

\* AccountTree with collapsible Liquido nodes: roots, nodes and rendered
\* children pass through assertHasBig
RenderAccountTree ==
    /\ pc = "response"
    /\ raised' = IF \E n \in RenderedNodes(bigAccounts, TRUE) : ~assertHasBig(n)
                 THEN "amountsBigInt is missing" ELSE "no"
    /\ pc' = "drawn collapsible"
    /\ UNCHANGED <<treeVars, foldVars, diffVars, extractVars, formatVars, appVars, cashVars,
                   parseVars, bigAccounts, maxItems>>

\* The later AccountTree: every node starts expanded
RenderAccountTreeExpanded ==
    /\ pc = "response"
    /\ raised' = IF \E n \in RenderedNodes(bigAccounts, FALSE) : ~assertHasBigOnly(n)
                 THEN "amountsBigInt is missing" ELSE "no"
    /\ pc' = "drawn expanded"
    /\ UNCHANGED <<treeVars, foldVars, diffVars, extractVars, formatVars, appVars, cashVars,
                   parseVars, bigAccounts, maxItems>>

NextRender == RenderAccountTree \/ RenderAccountTreeExpanded

SpecRender == InitRender /\ [][NextRender]_vars

\* The nodes of the finished render attempt
DrawnNodes == RenderedNodes(bigAccounts, pc = "drawn collapsible")

\* C22: rendering the tree raises 'amountsBigInt is missing' exactly when some
\* rendered node lacks amountsBigInt; a node that has amountsBigInt and no
\* cleared amounts passes.
C22_RaisesIffAmountsMissing ==
    pc # "response" =>
        (raised # "no" <=> \E n \in DrawnNodes : n.amountsBigInt = <<>>)

\* The later tree alone raises exactly for a missing amountsBigInt
ExpandedTreeRaisesIffAmountsMissing ==
    pc = "drawn expanded" =>
        (raised # "no" <=> \E n \in DrawnNodes : n.amountsBigInt = <<>>)

\* ---------------------------------------------------------------------------
\* CashFlowView: the tree of the cash-flow subtotals and its expansion state
\* ---------------------------------------------------------------------------

\* A row of the subtotals prop
SubTotal(path, inflow, outflow) ==
    [description |-> path, inflow_amount |-> inflow, outflow_amount |-> outflow]

\* inflow_amount is positive, outflow_amount negative
CashAmounts == {<<2, 0>>, <<0, -1>>}

SubTotals == {SubTotal(p, a[1], a[2]) : p \in Paths, a \in CashAmounts}

\* Lists of rows of distinct accounts
SubTotalLists ==
    {s \in UNION {[1..n -> SubTotals] : n \in 0..MaxSubtotals} :
        \A i, j \in 1..Len(s) : i # j => s[i].description # s[j].description}

\* The loop over parts of the first pass of buildCashFlowTree, from index i
\* with currentPath cur
RECURSIVE CashAddParts(_, _, _, _, _)
CashAddParts(m, item, parts, i, cur) ==
    IF i > Len(parts) THEN m
    ELSE LET currentPath == IF cur # <<>> THEN cur \o <<":">> \o parts[i] ELSE parts[i]
             isLeaf == i = Len(parts)
             m2 == IF ~MapHas(m, currentPath)
                   THEN MapSet(m, currentPath,
                          [description |-> parts[i], path |-> currentPath, level |-> i - 1,
                           inflow_amount |-> IF isLeaf THEN item.inflow_amount ELSE 0,
                           outflow_amount |-> IF isLeaf THEN item.outflow_amount ELSE 0,
                           children |-> <<>>, isParent |-> ~isLeaf])
                   ELSE m
         IN  CashAddParts(m2, item, parts, i + 1, currentPath)

\* subtotals.forEach of the first pass
RECURSIVE CashCreateNodes(_, _)
CashCreateNodes(m, items) ==
    IF Len(items) = 0 THEN m
    ELSE CashCreateNodes(CashAddParts(m, Head(items), Split(Head(items).description), 1, <<>>),
                         Tail(items))

\* The node at path after the second pass: parent.children.push(node);
\* parent.isParent = true
RECURSIVE CashLinked(_, _)
CashLinked(m, path) ==
    LET ks == ChildKeys(m, path)
    IN  [MapGet(m, path) EXCEPT !.children = [i \in 1..Len(ks) |-> CashLinked(m, ks[i])],
                                !.isParent = @ \/ Len(ks) > 0]

CashLinkTree(m) ==
    LET ks == RootKeys(m)
    IN  [i \in 1..Len(ks) |-> CashLinked(m, ks[i])]

\* calculateParentAmounts of buildCashFlowTree
RECURSIVE CashCalculateParentAmounts(_)
CashCalculateParentAmounts(node) ==
    IF Len(node.children) > 0
    THEN LET kids == [i \in 1..Len(node.children) |->
                          CashCalculateParentAmounts(node.children[i])]
             inflowSum == SumSeq([i \in 1..Len(kids) |-> kids[i].inflow_amount])
             outflowSum == SumSeq([i \in 1..Len(kids) |-> kids[i].outflow_amount])
         IN  IF node.isParent
             THEN [node EXCEPT !.children = kids, !.inflow_amount = inflowSum,
                               !.outflow_amount = outflowSum]
             ELSE [node EXCEPT !.children = kids]
    ELSE node

\* |inflow + outflow| of a node
AbsNet(node) ==
    LET net == node.inflow_amount + node.outflow_amount
    IN  IF net < 0 THEN -net ELSE net

\* children.sort((a, b) => Math.abs(bNet) - Math.abs(aNet)): stable
RECURSIVE SortByNet(_)
SortByNet(s) ==
    IF Len(s) <= 1 THEN s
    ELSE LET front == SortByNet(AllButLast(s))
             x == s[Len(s)]
             k == Cardinality({i \in 1..Len(front) : AbsNet(front[i]) >= AbsNet(x)})
         IN  SubSeq(front, 1, k) \o <<x>> \o SubSeq(front, k + 1, Len(front))

\* sortChildren of buildCashFlowTree
RECURSIVE CashSortChildren(_)
CashSortChildren(node) ==
    IF Len(node.children) > 0
    THEN LET sorted == SortByNet(node.children)
         IN  [node EXCEPT !.children = [i \in 1..Len(sorted) |-> CashSortChildren(sorted[i])]]
    ELSE node

buildCashFlowTree(items) ==
    LET linked == CashLinkTree(CashCreateNodes(<<>>, items))
        summed == [i \in 1..Len(linked) |-> CashCalculateParentAmounts(linked[i])]
    IN  [i \in 1..Len(summed) |-> CashSortChildren(summed[i])]

\* collectPaths(treeData): the paths of the nodes with children
collectPaths(nodes) == {n.path : n \in {x \in AllNodes(nodes) : Len(x.children) > 0}}

\* The rows on screen: the roots and the children of the rows drawn expanded
RECURSIVE CashRowsUnder(_, _)
CashRowsUnder(node, open) ==
    {node} \cup
    IF node.path \in open /\ Len(node.children) > 0
    THEN UNION {CashRowsUnder(node.children[i], open) : i \in 1..Len(node.children)}
    ELSE {}

CashRows(nodes, open) == UNION {CashRowsUnder(nodes[i], open) : i \in 1..Len(nodes)}

InitCash ==
    /\ subtotals \in SubTotalLists
    /\ cashTree = <<>>
    /\ expandedPaths = {}
    /\ expandAll = TRUE
    /\ pc = "subtotals"
    /\ maxItems = 0
    /\ TreeIdle /\ FoldIdle /\ DiffIdle /\ ExtractIdle /\ FormatIdle /\ AppIdle
    /\ RenderIdle /\ ParseIdle

\* The first render of CashFlowView: treeData, and the initial values of
\* expandedPaths and expandAll
MountCashFlowView ==
    /\ pc = "subtotals"
    /\ cashTree' = buildCashFlowTree(subtotals)
    /\ expandedPaths' = collectPaths(cashTree')
    /\ expandAll' = TRUE
    /\ pc' = "view"
    /\ UNCHANGED <<treeVars, foldVars, diffVars, extractVars, formatVars, appVars, renderVars,
                   parseVars, subtotals, maxItems>>

\* A click on the chevron of a row on screen: handleToggle, handleToggleExpand
HandleToggleExpand ==
    /\ pc = "view"
    /\ \E node \in CashRows(cashTree, expandedPaths) :
          /\ Len(node.children) > 0
          /\ expandedPaths' = IF node.path \in expandedPaths
                              THEN expandedPaths \ {node.path}
                              ELSE expandedPaths \cup {node.path}
    /\ UNCHANGED <<treeVars, foldVars, diffVars, extractVars, formatVars, appVars, renderVars,
                   parseVars, subtotals, cashTree, expandAll, maxItems, pc>>

\* A click on Collapse All / Expand All
HandleExpandAll ==
    /\ pc = "view"
    /\ expandedPaths' = IF expandAll THEN {} ELSE collectPaths(cashTree)
    /\ expandAll' = ~expandAll
    /\ UNCHANGED <<treeVars, foldVars, diffVars, extractVars, formatVars, appVars, renderVars,
                   parseVars, subtotals, cashTree, maxItems, pc>>

NextCash == MountCashFlowView \/ HandleToggleExpand \/ HandleExpandAll

SpecCash == InitCash /\ [][NextCash]_vars

\* The node of the tree at a path (paths of the nodes of a tree are distinct)
CashNodesAt(path) == {n \in AllNodes(cashTree) : n.path = path}

SubTotalPaths == {subtotals[i].description : i \in 1..Len(subtotals)}

\* C23: in the tree built from the subtotals, a node whose path is a row of the
\* input keeps the inflow and outflow of that row, whether or not it has
\* children and whatever the order of the rows; only the parents made up for a
\* missing path carry the sums of their children.
C23_InputRowsKeepAmounts ==
    pc = "view" =>
        /\ \A i \in 1..Len(subtotals) :
              \E n \in CashNodesAt(subtotals[i].description) :
                  /\ n.inflow_amount = subtotals[i].inflow_amount
                  /\ n.outflow_amount = subtotals[i].outflow_amount
        /\ \A n \in AllNodes(cashTree) :
              (n.path \notin SubTotalPaths /\ Len(n.children) > 0) =>
                  /\ n.inflow_amount =
                        SumSeq([i \in 1..Len(n.children) |-> n.children[i].inflow_amount])
                  /\ n.outflow_amount =
                        SumSeq([i \in 1..Len(n.children) |-> n.children[i].outflow_amount])

\* A row without children keeps its amounts, and a made-up parent carries the
\* sums of its children
LeafRowsKeepAmounts ==
    pc = "view" =>
        /\ \A i \in 1..Len(subtotals) :
              \A n \in CashNodesAt(subtotals[i].description) :
                  Len(n.children) = 0 =>
                      /\ n.inflow_amount = subtotals[i].inflow_amount
                      /\ n.outflow_amount = subtotals[i].outflow_amount
        /\ \A n \in AllNodes(cashTree) :
              Len(n.children) > 0 =>
                  /\ n.inflow_amount =
                        SumSeq([i \in 1..Len(n.children) |-> n.children[i].inflow_amount])
                  /\ n.outflow_amount =
                        SumSeq([i \in 1..Len(n.children) |-> n.children[i].outflow_amount])

\* C30: after any sequence of clicks on rows and on Expand All / Collapse All,
\* expandAll agrees with expandedPaths: when it is true every node with
\* children is in expandedPaths, when it is false expandedPaths is empty.
C30_ExpandAllAgrees ==
    pc = "view" =>
        /\ expandAll => collectPaths(cashTree) \subseteq expandedPaths
        /\ ~expandAll => expandedPaths = {}

\* Without a click on a row the two agree
ExpandAllAgreesWithoutToggle ==
    [][HandleToggleExpand \/
       (pc' = "view" =>
           expandedPaths' = IF expandAll' THEN collectPaths(cashTree') ELSE {})]_vars

\* ---------------------------------------------------------------------------
\* buildTreeFromPaths on paths with an empty segment
\* ---------------------------------------------------------------------------

\* Paths of up to MaxEmptyDepth segments, one of them at least empty: '', ':',
\* 'A:', ':A', ':A:A', ...
EmptySegmentPaths ==
    {Join(p) : p \in {q \in UNION {[1..n -> {<<>>, <<"A">>}] : n \in 1..MaxEmptyDepth} :
                         <<>> \in Range(q)}}

AnyFlatAccounts ==
    {Account(p, a, c, <<>>) : p \in Paths \cup EmptySegmentPaths, a \in Amounts,
                              c \in ClearedAmounts}

\* No two accounts of the list have the same path
DistinctPaths(accs) ==
    \A i, j \in 1..Len(accs) : i # j => PathOf(accs[i]) # PathOf(accs[j])

DistinctFlatInputs ==
    {s \in UNION {[1..n -> AnyFlatAccounts] : n \in 0..MaxAccounts} : DistinctPaths(s)}

InitPaths ==
    /\ accounts \in DistinctFlatInputs \cup NestedInputs
    /\ nodeMap = <<>>
    /\ idx = 1
    /\ tree = <<>>
    /\ treeAccounts = <<>>
    /\ again = <<>>
    /\ pc = "memo"
    /\ FoldIdle /\ DiffIdle /\ ExtractIdle /\ FormatIdle /\ AppIdle /\ RestIdle /\ maxItems = 0

SpecPaths == InitPaths /\ [][NextTree]_vars

\* How many times a path occurs in a tree
RECURSIVE Occurrences(_, _)
Occurrences(node, path) ==
    (IF PathOf(node) = path THEN 1 ELSE 0) +
    SumSeq([i \in 1..Len(node.children) |-> Occurrences(node.children[i], path)])

OccurrencesIn(forest, path) ==
    SumSeq([i \in 1..Len(forest) |-> Occurrences(forest[i], path)])

\* The segments of the first path are the first segments of the second, which
\* has more
IsStrictPrefix(prefix, path) ==
    LET a == Split(prefix)
        b == Split(path)
    IN  Len(a) < Len(b) /\ a = SubSeq(b, 1, Len(a))

\* C29: buildTreeFromPaths loses no account: for a flat list of accounts with
\* distinct colon paths, in any order, paths with an empty segment included,
\* every account of the input is reachable from the roots exactly once, and
\* every other node is a placeholder for a strict prefix of a path of the input.
C29_NoAccountLost ==
    (Built /\ DistinctPaths(accounts)) =>
        /\ \A i \in 1..Len(accounts) :
              OccurrencesIn(treeAccounts, PathOf(accounts[i])) = 1
        /\ \A n \in AllNodes(treeAccounts) :
              PathOf(n) \notin InputPaths =>
                  /\ n.lastClearedDate = <<>>
                  /\ \E i \in 1..Len(accounts) : IsStrictPrefix(PathOf(n), PathOf(accounts[i]))

\* A path whose first segment is empty and that has three segments or more
LeadingEmptySegment(path) == Len(Split(path)) >= 3 /\ Split(path)[1] = <<>>

\* Where no path of the input has an empty first segment and two segments or
\* more after it, no account is lost
NoAccountLostOtherwise ==
    (\A i \in 1..Len(accounts) : ~LeadingEmptySegment(PathOf(accounts[i]))) => C29_NoAccountLost

====
